---- MODULE Spec2Model ----
(***************************************************************************)
(* The HighLevel private-token cache of src/server/ghl/privateToken.ts as  *)
(* a state machine.  Request handlers run on one event loop: a handler     *)
(* runs without interruption from one await to the next, and any           *)
(* continuation whose awaited promise has settled may be the next to run.  *)
(* One action of the model is one such uninterrupted run.                  *)
(***************************************************************************)
EXTENDS Integers, Sequences, FiniteSets, TLC

\* ------------------------------------------------------------- bounds
\* Concurrent request handlers.
NumHandlers == 2
\* obtainFreshToken() runs in one behaviour.
MaxAcq == 3
\* Clock ticks in one behaviour.
MaxTicks == 2

\* ---------------------------------------------------- program constants
\* process.env.GHL_PRIVATE_TOKEN_BUFFER_SECONDS || '60', and the fallback.
DEFAULT_BUFFER_SECONDS == 60
MINIMUM_EXPIRY_FALLBACK_SECONDS == 30

TOKEN_ENDPOINT == "https://services.leadconnectorhq.com/oauth/token"
DEFAULT_USER_TYPE == "Company"

\* null / undefined of the source, for string-valued slots.
Null == "<null>"

VARIABLES
  env,                    \* process.env, fixed for the life of the process
  now,                    \* Date.now(), milliseconds
  cachedToken,            \* TokenCache | null
  inFlight,               \* 0 (null) or the acquisition whose promise it holds
  lastKnownRefreshToken,  \* string | null
  acq,                    \* the obtainFreshToken() runs started so far
  lastResponse,           \* the endpoint's answer handled by the last step, if any
  handler,                \* each request handler's position and last result
  lastOp,                 \* whether the last step was an invalidation
  op,                     \* each request handler's caller-facing operation
  script                  \* one run of scripts/ghl-auth.js and its .env.local

vars == <<env, now, cachedToken, inFlight, lastKnownRefreshToken, acq,
          lastResponse, handler, lastOp, op, script>>

Handlers == 1..NumHandlers

\* ------------------------------------------------------------ strings
\* A string of a response body: its text without the surrounding white
\* space, and whether white space surrounds it.
Raw(t) == [str |-> t, pad |-> FALSE]
Padded(t) == [str |-> t, pad |-> TRUE]
\* A field that is missing or is not a string.
Absent == [absent |-> TRUE]
IsString(v) == v # Absent
Trim(v) == v.str

Digits == <<"0", "1", "2", "3", "4", "5", "6", "7", "8", "9">>
IsDigit(c) == \E d \in 1..10 : Digits[d] = c
DigitValue(c) == (CHOOSE d \in 1..10 : Digits[d] = c) - 1

RECURSIVE ParseDigits(_, _)
ParseDigits(chars, acc) ==
  IF chars = <<>> \/ ~IsDigit(Head(chars))
  THEN acc
  ELSE ParseDigits(Tail(chars), acc * 10 + DigitValue(Head(chars)))

\* Number.parseInt(chars, 10): an optional sign, then the leading digits;
\* NaN when there is no digit.
ParseInt(chars) ==
  LET signed == chars # <<>> /\ Head(chars) \in {"-", "+"}
      digits == IF signed THEN Tail(chars) ELSE chars
      value == ParseDigits(digits, 0)
  IN IF digits = <<>> \/ ~IsDigit(Head(digits))
     THEN [nan |-> TRUE, value |-> 0]
     ELSE [nan |-> FALSE,
           value |-> IF signed /\ Head(chars) = "-" THEN 0 - value ELSE value]

Max(a, b) == IF a >= b THEN a ELSE b

\* -------------------------------------------------------- environment
EXPIRY_BUFFER_SECONDS ==
  ParseInt(IF env.GHL_PRIVATE_TOKEN_BUFFER_SECONDS = <<>>
           THEN <<"6", "0">>
           ELSE env.GHL_PRIVATE_TOKEN_BUFFER_SECONDS)

TOKEN_BUFFER ==
  IF ~EXPIRY_BUFFER_SECONDS.nan /\ EXPIRY_BUFFER_SECONDS.value > 0
  THEN EXPIRY_BUFFER_SECONDS.value
  ELSE DEFAULT_BUFFER_SECONDS

\* The environments a process may start in.
Environments ==
  [GHL_PRIVATE_CLIENT_ID : {Null, "id"},
   GHL_PRIVATE_CLIENT_SECRET : {"secret"},
   GHL_PRIVATE_REFRESH_TOKEN : {Null, "R0"},
   GHL_PRIVATE_AUTH_CODE : {Null, "code"},
   GHL_PRIVATE_TOKEN_BUFFER_SECONDS : {<<>>, <<"0">>, <<"9", "0">>, <<"x">>}]

\* Those that leave the expiry buffer at its default.
DefaultBufferEnvironments ==
  {e \in Environments : e.GHL_PRIVATE_TOKEN_BUFFER_SECONDS = <<>>}

\* ------------------------------------------------------------ tokens
NoToken == [accessToken |-> Null, refreshToken |-> Null, expiresAt |-> 0]

\* The access token the provider mints in answer to the request that
\* acquisition a sends for a grant: a new one for every request.
MintedToken(a, grant) ==
  "AT" \o ToString(a) \o (IF grant = "refresh_token" THEN "r" ELSE "c")

EmptyPayload ==
  [access_token |-> Absent, refresh_token |-> Absent, expires_in |-> Absent,
   message |-> Absent, error |-> Absent]

\* expires_in of a response: a number, a string, or missing.
ExpiresInValues ==
  {Absent,
   [type |-> "number", value |-> 0],
   [type |-> "number", value |-> 0 - 5],
   [type |-> "number", value |-> 45],
   [type |-> "number", value |-> 120],
   [type |-> "string", chars |-> <<"1", "5", "0">>],
   [type |-> "string", chars |-> <<"s", "o", "o", "n">>]}

RefreshTokenValues == {Absent, Padded(""), Padded("R1"), Raw("R2")}

\* The answers the token endpoint may give to a request, minting the access
\* token named: a transport failure, or a status with a body that parses or
\* does not.
SuccessPayloads(minted) ==
  {[EmptyPayload EXCEPT !.access_token = Padded(minted),
                        !.refresh_token = r, !.expires_in = e] :
     r \in RefreshTokenValues, e \in ExpiresInValues}

TokenResponses(minted) ==
  {[kind |-> "network", status |-> 0, parses |-> FALSE, payload |-> EmptyPayload]}
  \cup {[kind |-> "http", status |-> 200, parses |-> TRUE, payload |-> p] :
          p \in SuccessPayloads(minted)}
  \cup {[kind |-> "http", status |-> 200, parses |-> FALSE, payload |-> EmptyPayload],
        [kind |-> "http", status |-> 200, parses |-> TRUE,
         payload |-> [EmptyPayload EXCEPT !.access_token = Padded("")]],
        [kind |-> "http", status |-> 400, parses |-> TRUE,
         payload |-> [EmptyPayload EXCEPT !.message = Padded("invalid_grant"),
                                          !.error = Raw("bad_request")]],
        [kind |-> "http", status |-> 401, parses |-> TRUE,
         payload |-> [EmptyPayload EXCEPT !.message = Padded(""),
                                          !.error = Raw("unauthorized")]],
        [kind |-> "http", status |-> 500, parses |-> FALSE, payload |-> EmptyPayload]}

\* The answers drawn from where handlers run concurrently: one of each
\* kind of outcome.
CoarseResponses(minted) ==
  {r \in TokenResponses(minted) :
     \/ r.kind = "network"
     \/ r.status = 400
     \/ /\ r.status = 200 /\ r.parses /\ r.payload.access_token = Padded(minted)
        /\ \/ r.payload.refresh_token = Absent /\ r.payload.expires_in = Absent
           \/ /\ r.payload.refresh_token = Padded("R1")
              /\ r.payload.expires_in = [type |-> "number", value |-> 120]}

NoResponse == [kind |-> "none", status |-> 0, parses |-> FALSE,
               payload |-> EmptyPayload]

\* ----------------------------------------------------- pure functions
MissingCredentialsMessage ==
  "Missing GHL private integration credentials. Define GHL_PRIVATE_CLIENT_ID and GHL_PRIVATE_CLIENT_SECRET."
MissingAccessTokenMessage ==
  "HighLevel token response did not include an access_token."
NoGrantMessage ==
  "No refresh token or authorization code is configured for the HighLevel private integration."
FetchFailedMessage == "fetch failed"

\* assertClientCredentials() returns rather than throws.
HasClientCredentials ==
  env.GHL_PRIVATE_CLIENT_ID # Null /\ env.GHL_PRIVATE_CLIENT_SECRET # Null

parseExpiresIn(value) ==
  IF value = Absent THEN 0
  ELSE IF value.type = "number" THEN value.value
  ELSE IF ParseInt(value.chars).nan THEN 0 ELSE ParseInt(value.chars).value

normaliseError(payload, status) ==
  IF IsString(payload.message) /\ Trim(payload.message) # ""
  THEN Trim(payload.message)
  ELSE IF IsString(payload.error) /\ Trim(payload.error) # ""
  THEN Trim(payload.error)
  ELSE "HighLevel token request failed with status " \o ToString(status) \o "."

\* response.text() then JSON.parse in try/catch: a body that does not parse
\* is the empty payload.
ParseBody(response) == IF response.parses THEN response.payload ELSE EmptyPayload

ResponseOk(response) == response.status \in 200..299

\* The duration without the floor: what C5 excludes.
effectiveDurationNoFloor(expiresIn) == expiresIn - TOKEN_BUFFER

effectiveDuration(expiresIn) ==
  Max(expiresIn - TOKEN_BUFFER, MINIMUM_EXPIRY_FALLBACK_SECONDS)

\* The refresh token of the token built from a response to a request with
\* these params.
ResponseRefreshToken(payload, params) ==
  IF IsString(payload.refresh_token) /\ Trim(payload.refresh_token) # ""
  THEN Trim(payload.refresh_token)
  ELSE IF "refresh_token" \in DOMAIN params THEN params.refresh_token ELSE Null

\* The outcome without the test for an empty access token: what C26
\* excludes.
TokenRequestOutcomeUnchecked(response, params) ==
  LET payload == ParseBody(response)
      accessToken == IF IsString(payload.access_token)
                     THEN Trim(payload.access_token) ELSE ""
  IN IF response.kind = "network"
     THEN [ok |-> FALSE, message |-> FetchFailedMessage, token |-> NoToken]
     ELSE IF ~ResponseOk(response)
     THEN [ok |-> FALSE, message |-> normaliseError(payload, response.status),
           token |-> NoToken]
     ELSE [ok |-> TRUE, message |-> Null,
           token |-> [accessToken |-> accessToken,
                      refreshToken |-> ResponseRefreshToken(payload, params),
                      expiresAt |-> now + effectiveDuration(
                                      parseExpiresIn(payload.expires_in)) * 1000]]

\* The outcome of performTokenRequest(params) once the endpoint answered:
\* the token it returns, or the message of the error it throws.
TokenRequestOutcome(response, params) ==
  LET payload == ParseBody(response)
      accessToken == IF IsString(payload.access_token)
                     THEN Trim(payload.access_token) ELSE ""
  IN IF response.kind = "network"
     THEN [ok |-> FALSE, message |-> FetchFailedMessage, token |-> NoToken]
     ELSE IF ~ResponseOk(response)
     THEN [ok |-> FALSE, message |-> normaliseError(payload, response.status),
           token |-> NoToken]
     ELSE IF accessToken = ""
     THEN [ok |-> FALSE, message |-> MissingAccessTokenMessage, token |-> NoToken]
     ELSE [ok |-> TRUE, message |-> Null,
           token |-> [accessToken |-> accessToken,
                      refreshToken |-> ResponseRefreshToken(payload, params),
                      expiresAt |-> now + effectiveDuration(
                                      parseExpiresIn(payload.expires_in)) * 1000]]

RECURSIVE JoinWithComma(_)
\* The messages joined by Array.prototype.join's default separator: what
\* C8 excludes.
JoinWithComma(messages) ==
  IF Len(messages) = 0 THEN ""
  ELSE IF Len(messages) = 1 THEN messages[1]
  ELSE messages[1] \o "," \o JoinWithComma(Tail(messages))

RECURSIVE JoinMessages(_)
\* attemptErrors.map((err) => err.message).join(' | ')
JoinMessages(messages) ==
  IF Len(messages) = 0 THEN ""
  ELSE IF Len(messages) = 1 THEN messages[1]
  ELSE messages[1] \o " | " \o JoinMessages(Tail(messages))

\* The form body of a token request.
RequestBody(params) ==
  [client_id |-> env.GHL_PRIVATE_CLIENT_ID,
   client_secret |-> env.GHL_PRIVATE_CLIENT_SECRET,
   user_type |-> DEFAULT_USER_TYPE] @@ params

RefreshParams(refreshToken) ==
  [grant_type |-> "refresh_token", refresh_token |-> refreshToken]

AuthorizationCodeParams(authorizationCode) ==
  [grant_type |-> "authorization_code", code |-> authorizationCode]

\* ------------------------------------------------------- initial state
IdleHandler == [pc |-> "idle", joined |-> 0, result |-> [kind |-> "none", value |-> Null]]

NoOutcome == [ok |-> FALSE, message |-> Null, token |-> NoToken]

\* An acquisition whose promise nothing refers to any more.
Retired ==
  [pc |-> "retired", refreshToken |-> Null, authorizationCode |-> Null,
   attemptErrors |-> <<>>, attempted |-> <<>>, sent |-> <<>>,
   params |-> [grant_type |-> Null],
   ptr |-> NoOutcome, token |-> NoToken, error |-> Null,
   finallyRan |-> TRUE]

\* A handler that runs no caller-facing operation.
NoOperation ==
  [kind |-> "none", pc |-> "idle", bases |-> <<>>, base |-> 0, pattern |-> 0,
   token |-> Null, gets |-> 0, invalidations |-> 0, sends |-> <<>>,
   coldStart |-> FALSE, acquired |-> 0,
   received |-> <<>>, unparsed |-> {}, retryUsed |-> FALSE, pass |-> <<>>, allAttempts |-> <<>>,
   response |-> [status |-> 0, body |-> [none |-> TRUE]]]

\* scripts/ghl-auth.js is not run.
NoScript == [pc |-> "none"]

InitIn(environments) ==
  /\ script = NoScript
  /\ env \in environments
  /\ now = 0
  /\ cachedToken = NoToken
  /\ inFlight = 0
  /\ lastKnownRefreshToken = env.GHL_PRIVATE_REFRESH_TOKEN
  /\ acq = <<>>
  /\ lastResponse = NoResponse
  /\ handler = [h \in Handlers |-> IdleHandler]
  /\ lastOp = "other"
  /\ op = [h \in Handlers |-> NoOperation]

\* Handlers run concurrently in a process with the default expiry buffer.
Init == InitIn(DefaultBufferEnvironments)

\* One handler runs in a process started in any environment.
InitSequential == InitIn(Environments)

\* ------------------------------------------------------- the token cache
\* The test with an inclusive comparison: what C3 excludes.
CacheValidInclusive == cachedToken # NoToken /\ cachedToken.expiresAt >= now

\* The test without the expiry comparison: what C4 excludes.
CachePresent == cachedToken # NoToken

\* The test of getPrivateAccessToken() for serving the cached token.
CacheValid == cachedToken # NoToken /\ cachedToken.expiresAt > now

\* The same test, made when the cache slot holds token.
CacheValidWith(token) == token # NoToken /\ token.expiresAt > now

\* performTokenRequest(params) up to its first await, in the acquisition
\* with record rec: it throws when the client credentials are missing, and
\* sends the request otherwise.
BeginTokenRequest(rec, params) ==
  IF HasClientCredentials
  THEN [rec EXCEPT !.pc = "fetch", !.params = params,
                   !.attempted = Append(@, params.grant_type),
                   !.sent = Append(@, RequestBody(params))]
  ELSE [rec EXCEPT !.pc = "settled", !.params = params,
                   !.attempted = Append(@, params.grant_type),
                   !.ptr = [NoOutcome EXCEPT !.message = MissingCredentialsMessage]]

\* The error without the message for the case that no grant was
\* configured: what C9 excludes.
JoinedAttemptMessages(attemptErrors) == JoinMessages(attemptErrors)

\* The error obtainFreshToken() throws when no grant succeeded.
AcquisitionErrorMessage(attemptErrors) ==
  IF Len(attemptErrors) > 0 THEN JoinMessages(attemptErrors) ELSE NoGrantMessage

\* The authorization code preferred to the refresh token: what C7 excludes.
FirstGrantCodePreferred(refreshToken, authorizationCode) ==
  IF authorizationCode # Null THEN AuthorizationCodeParams(authorizationCode)
  ELSE IF refreshToken # Null THEN RefreshParams(refreshToken)
  ELSE [grant_type |-> Null]

\* The grant obtainFreshToken() tries first: the parameters of its token
\* request, or none.
FirstGrant(refreshToken, authorizationCode) ==
  IF refreshToken # Null THEN RefreshParams(refreshToken)
  ELSE IF authorizationCode # Null THEN AuthorizationCodeParams(authorizationCode)
  ELSE [grant_type |-> Null]

\* obtainFreshToken() up to its first await.
BeginAcquisition ==
  LET refreshToken == lastKnownRefreshToken
      authorizationCode == env.GHL_PRIVATE_AUTH_CODE
      rec == [Retired EXCEPT !.pc = "start", !.refreshToken = refreshToken,
                             !.authorizationCode = authorizationCode,
                             !.finallyRan = FALSE]
      params == FirstGrant(refreshToken, authorizationCode)
  IN IF params.grant_type # Null
     THEN BeginTokenRequest(rec, params)
     ELSE [rec EXCEPT !.pc = "rejected", !.error = AcquisitionErrorMessage(<<>>)]

\* getPrivateAccessToken() without a valid cached token, up to its await:
\* it starts an acquisition when inFlight is null, and awaits inFlight.
AwaitInFlight(h, cap) ==
  IF inFlight = 0
  THEN /\ Len(acq) < cap
       /\ acq' = Append(acq, BeginAcquisition)
       /\ inFlight' = Len(acq) + 1
       /\ handler' = [handler EXCEPT ![h].pc = "awaiting",
                                     ![h].joined = Len(acq) + 1]
  ELSE /\ handler' = [handler EXCEPT ![h].pc = "awaiting", ![h].joined = inFlight]
       /\ UNCHANGED <<inFlight, acq>>

\* getPrivateAccessToken() up to its await, called by handler h: it serves
\* the cached token, or starts an acquisition when inFlight is null, and
\* awaits inFlight.  At most cap acquisitions are started in a behaviour.
GetCallWithin(h, cap) ==
  /\ handler[h].pc = "idle"
  /\ lastOp' = "other"
  /\ lastResponse' = NoResponse
  /\ UNCHANGED <<env, now, cachedToken, lastKnownRefreshToken, script>>
  /\ IF CacheValid
     THEN /\ handler' = [handler EXCEPT ![h] =
                 [pc |-> "done", joined |-> 0,
                  result |-> [kind |-> "token", value |-> cachedToken.accessToken]]]
          /\ UNCHANGED <<inFlight, acq>>
     ELSE AwaitInFlight(h, cap)

GetCall(h) == GetCallWithin(h, MaxAcq) /\ UNCHANGED op

\* performTokenRequest() from the endpoint's answer to its return or throw,
\* in acquisition a: a token that was built is cached, and its refresh
\* token remembered, before the function returns.
TokenResponse(a, responses) ==
  /\ a \in 1..Len(acq)
  /\ acq[a].pc = "fetch"
  /\ \E response \in responses :
       LET outcome == TokenRequestOutcome(response, acq[a].params)
       IN /\ acq' = [acq EXCEPT ![a].pc = "settled", ![a].ptr = outcome]
          /\ cachedToken' = IF outcome.ok THEN outcome.token ELSE cachedToken
          /\ lastKnownRefreshToken' =
               IF outcome.ok /\ outcome.token.refreshToken # Null
               THEN outcome.token.refreshToken
               ELSE lastKnownRefreshToken
          /\ lastResponse' = response
  /\ lastOp' = "other"
  /\ UNCHANGED <<env, now, inFlight, handler, op, script>>

\* obtainFreshToken() from the settling of the performTokenRequest() it
\* awaits: it returns the token, or records the error and goes on to the
\* authorization-code grant, or throws.
ObtainResume(a) ==
  /\ a \in 1..Len(acq)
  /\ acq[a].pc = "settled"
  /\ lastOp' = "other"
  /\ lastResponse' = NoResponse
  /\ UNCHANGED <<env, now, cachedToken, inFlight, handler, op, script>>
  /\ IF acq[a].ptr.ok
     THEN /\ acq' = [acq EXCEPT ![a].pc = "fulfilled", ![a].token = acq[a].ptr.token,
                                ![a].ptr = NoOutcome]
          /\ UNCHANGED lastKnownRefreshToken
     ELSE LET attemptErrors == Append(acq[a].attemptErrors, acq[a].ptr.message)
              failed == [acq[a] EXCEPT !.attemptErrors = attemptErrors,
                                       !.ptr = NoOutcome]
              thrown == [failed EXCEPT !.pc = "rejected",
                                       !.error = AcquisitionErrorMessage(attemptErrors)]
              fallback == BeginTokenRequest(failed,
                            AuthorizationCodeParams(acq[a].authorizationCode))
          IN IF acq[a].params.grant_type = "refresh_token"
             THEN /\ lastKnownRefreshToken' = Null
                  /\ IF acq[a].authorizationCode # Null
                     THEN acq' = [acq EXCEPT ![a] = fallback]
                     ELSE acq' = [acq EXCEPT ![a] = thrown]
             ELSE /\ acq' = [acq EXCEPT ![a] = thrown]
                  /\ UNCHANGED lastKnownRefreshToken

\* A callback that clears inFlight after a success only: what C25
\* excludes.
FinallyCallbackOnSuccess(a) ==
  /\ a \in 1..Len(acq)
  /\ acq[a].pc \in {"fulfilled", "rejected"}
  /\ ~acq[a].finallyRan
  /\ acq' = [acq EXCEPT ![a].finallyRan = TRUE]
  /\ inFlight' = IF acq[a].pc = "fulfilled" THEN 0 ELSE inFlight
  /\ lastOp' = "other"
  /\ lastResponse' = NoResponse
  /\ UNCHANGED <<env, now, cachedToken, lastKnownRefreshToken, handler, op,
                 script>>

\* The callback of obtainFreshToken().finally(...): it runs once the
\* acquisition settled, and the promise held in inFlight settles after it.
FinallyCallback(a) ==
  /\ a \in 1..Len(acq)
  /\ acq[a].pc \in {"fulfilled", "rejected"}
  /\ ~acq[a].finallyRan
  /\ acq' = [acq EXCEPT ![a].finallyRan = TRUE]
  /\ inFlight' = 0
  /\ lastOp' = "other"
  /\ lastResponse' = NoResponse
  /\ UNCHANGED <<env, now, cachedToken, lastKnownRefreshToken, handler, op, script>>

\* The result read from the cache slot rather than from the awaited
\* promise: what C2 excludes.
AwaitedResultFromCache(h) ==
  IF acq[handler[h].joined].pc = "fulfilled"
  THEN [kind |-> "token", value |-> cachedToken.accessToken]
  ELSE [kind |-> "error", value |-> acq[handler[h].joined].error]

\* What `await inFlight` gives handler h: the token or the error of the
\* promise it awaited.
AwaitedResult(h) ==
  IF acq[handler[h].joined].pc = "fulfilled"
  THEN [kind |-> "token", value |-> acq[handler[h].joined].token.accessToken]
  ELSE [kind |-> "error", value |-> acq[handler[h].joined].error]

\* The finally block of getPrivateAccessToken().
InFlightAfterGet == IF cachedToken = NoToken THEN 0 ELSE inFlight

\* getPrivateAccessToken() from its await to its return or throw.
GetResume(h) ==
  /\ handler[h].pc = "awaiting"
  /\ acq[handler[h].joined].finallyRan
  /\ handler' = [handler EXCEPT ![h].pc = "done", ![h].result = AwaitedResult(h)]
  /\ inFlight' = InFlightAfterGet
  /\ lastOp' = "other"
  /\ lastResponse' = NoResponse
  /\ UNCHANGED <<env, now, cachedToken, lastKnownRefreshToken, acq, op, script>>

\* An invalidation that drops only a token that is still valid: what C6
\* excludes.
InvalidatedIfValid ==
  IF cachedToken.expiresAt > now THEN NoToken ELSE cachedToken

\* An invalidation that drops the cached token only when a handler that
\* awaits the answer to a request sent that token: what C28 excludes.
InvalidatedIfRejected ==
  IF \E h \in Handlers : op[h].pc = "fetch" /\ op[h].token = cachedToken.accessToken
  THEN NoToken
  ELSE cachedToken

\* An invalidation that leaves the cache as it is: what C12 excludes.
CacheKept == cachedToken

\* invalidatePrivateAccessToken(): the cached token it leaves.
InvalidatedCache == NoToken

Invalidate(h) ==
  /\ handler[h].pc = "idle"
  /\ cachedToken' = InvalidatedCache
  /\ lastOp' = "invalidate"
  /\ lastResponse' = NoResponse
  /\ UNCHANGED <<env, now, inFlight, lastKnownRefreshToken, acq, handler, op, script>>

\* The acquisitions once handler h dropped the promise it awaited: a
\* settled promise that no handler and not inFlight refers to is gone.
Collect(h) ==
  LET a == handler[h].joined
      referred == \E g \in Handlers \ {h} : handler[g].joined = a
  IN IF a # 0 /\ ~referred /\ acq[a].finallyRan
     THEN [acq EXCEPT ![a] = Retired]
     ELSE acq

\* The caller of getPrivateAccessToken() takes the token or the error and
\* goes on.
HandlerContinue(h) ==
  /\ handler[h].pc = "done"
  /\ handler' = [handler EXCEPT ![h] = IdleHandler]
  /\ acq' = Collect(h)
  /\ lastOp' = "other"
  /\ lastResponse' = NoResponse
  /\ UNCHANGED <<env, now, cachedToken, inFlight, lastKnownRefreshToken, op, script>>

\* Time passes, in steps of the shortest lifetime a token can have.
Tick ==
  /\ now < MaxTicks * MINIMUM_EXPIRY_FALLBACK_SECONDS * 1000
  /\ now' = now + MINIMUM_EXPIRY_FALLBACK_SECONDS * 1000
  /\ lastOp' = "other"
  /\ lastResponse' = NoResponse
  /\ UNCHANGED <<env, cachedToken, inFlight, lastKnownRefreshToken, acq,
                 handler, op, script>>

\* The endpoint answers acquisition a's request with one of the answers
\* the concurrent model draws from.
EndpointAnswers(a) ==
  TokenResponse(a, CoarseResponses(MintedToken(a, acq[a].params.grant_type)))

Next ==
  \/ \E h \in Handlers : GetCall(h)
  \/ \E h \in Handlers : GetResume(h)
  \/ \E h \in Handlers : Invalidate(h)
  \/ \E h \in Handlers : HandlerContinue(h)
  \/ \E a \in 1..Len(acq) : EndpointAnswers(a)
  \/ \E a \in 1..Len(acq) : ObtainResume(a)
  \/ \E a \in 1..Len(acq) : FinallyCallback(a)
  \/ Tick

Spec == Init /\ [][Next]_vars

\* Handlers run concurrently, for one acquisition more, in a process that
\* has its client credentials.
InitLong ==
  InitIn({e \in DefaultBufferEnvironments : e.GHL_PRIVATE_CLIENT_ID # Null})

\* Every token-endpoint request settles, and the event loop runs every
\* continuation whose promise has settled.
Fairness ==
  /\ \A a \in 1..MaxAcq :
       /\ WF_vars(EndpointAnswers(a))
       /\ WF_vars(ObtainResume(a))
       /\ WF_vars(FinallyCallback(a))
  /\ \A h \in Handlers : WF_vars(GetResume(h))

\* Handlers run concurrently, for one acquisition less, in a process that
\* has its client credentials, under that scheduling.
GetCallLive(h) == GetCallWithin(h, MaxAcq - 1) /\ UNCHANGED op

NextLive ==
  \/ \E h \in Handlers : GetCallLive(h)
  \/ \E h \in Handlers : GetResume(h)
  \/ \E h \in Handlers : Invalidate(h)
  \/ \E h \in Handlers : HandlerContinue(h)
  \/ \E a \in 1..Len(acq) : EndpointAnswers(a)
  \/ \E a \in 1..Len(acq) : ObtainResume(a)
  \/ \E a \in 1..Len(acq) : FinallyCallback(a)
  \/ Tick

LiveSpec == InitLong /\ [][NextLive]_vars /\ Fairness

GetCallLong(h) == GetCallWithin(h, MaxAcq + 1) /\ UNCHANGED op

NextLong ==
  \/ \E h \in Handlers : GetCallLong(h)
  \/ \E h \in Handlers : GetResume(h)
  \/ \E h \in Handlers : Invalidate(h)
  \/ \E h \in Handlers : HandlerContinue(h)
  \/ \E a \in 1..Len(acq) : EndpointAnswers(a)
  \/ \E a \in 1..Len(acq) : ObtainResume(a)
  \/ \E a \in 1..Len(acq) : FinallyCallback(a)
  \/ Tick

LongSpec == InitLong /\ [][NextLong]_vars

\* The endpoint answers acquisition a's request with any of its answers.
EndpointAnswersAny(a) ==
  TokenResponse(a, TokenResponses(MintedToken(a, acq[a].params.grant_type)))

\* One handler calls the token cache, one call after the other.
NextSequential ==
  \/ GetCall(1)
  \/ GetResume(1)
  \/ Invalidate(1)
  \/ HandlerContinue(1)
  \/ \E a \in 1..Len(acq) : EndpointAnswersAny(a)
  \/ \E a \in 1..Len(acq) : ObtainResume(a)
  \/ \E a \in 1..Len(acq) : FinallyCallback(a)
  \/ Tick

SequentialSpec == InitSequential /\ [][NextSequential]_vars

\* ------------------------------------------------- the route handlers
DEFAULT_GHL_BASE_URL == "https://rest.gohighlevel.com/v1"
LEADCONNECTOR_BASE_URL == "https://services.leadconnectorhq.com/v1"

\* A string value of the request body as the sequence of its pieces:
\* white space " ", a slash "/", a scheme, or other text.
Whitespace == " "
Slash == "/"

\* The schemes /^https?:\/\//i accepts, among those the bodies use.
HttpSchemes == {"https://", "http://", "HTTPS://"}

RECURSIVE TrimStart(_)
TrimStart(pieces) ==
  IF pieces # <<>> /\ Head(pieces) = Whitespace THEN TrimStart(Tail(pieces))
  ELSE pieces

RECURSIVE DropTrailing(_, _)
\* pieces without the pieces equal to piece at its end.
DropTrailing(pieces, piece) ==
  IF pieces # <<>> /\ pieces[Len(pieces)] = piece
  THEN DropTrailing(SubSeq(pieces, 1, Len(pieces) - 1), piece)
  ELSE pieces

RECURSIVE Concat(_)
Concat(pieces) ==
  IF pieces = <<>> THEN "" ELSE Head(pieces) \o Concat(Tail(pieces))

\* sanitiseBaseUrl(candidate); a candidate that is no string is Absent.
sanitiseBaseUrl(candidate) ==
  IF candidate = Absent THEN DEFAULT_GHL_BASE_URL
  ELSE LET trimmed == DropTrailing(TrimStart(candidate.pieces), Whitespace)
           cleaned == DropTrailing(trimmed, Slash)
       IN IF trimmed # <<>> /\ cleaned # <<>> /\ Head(cleaned) \in HttpSchemes
          THEN Concat(cleaned)
          ELSE DEFAULT_GHL_BASE_URL

\* The values of body.baseUrl the handlers are called with.
BaseUrlCandidates ==
  {Absent,
   [pieces |-> <<>>],
   [pieces |-> <<"https://", "rest.gohighlevel.com", "/", "v1">>],
   [pieces |-> <<" ", "https://", "services.leadconnectorhq.com", "/", "v1",
                 "/", "/", " ">>],
   [pieces |-> <<"HTTPS://", "rest.gohighlevel.com", "/", "v1">>],
   [pieces |-> <<"http://", "proxy.example", "/", "v1", "/">>],
   [pieces |-> <<"ftp://", "services.leadconnectorhq.com", "/", "v1">>]}

\* The location the detail and custom-values handlers are called for, as
\* encodeURIComponent leaves it.
EncodedLocationId == "loc1"

\* PATH_PATTERNS applied to the location.
PATH_PATTERNS ==
  <<"/locations/" \o EncodedLocationId \o "/customValues",
    "/customValues/location/" \o EncodedLocationId,
    "/custom-values/location/" \o EncodedLocationId,
    "/locations/" \o EncodedLocationId \o "/custom-values",
    "/customValues/" \o EncodedLocationId>>

\* The LeadConnector host as the alternate of every other base: what C17
\* excludes.
CandidateBasesAlways(primaryBase) ==
  IF primaryBase = LEADCONNECTOR_BASE_URL
  THEN <<primaryBase, DEFAULT_GHL_BASE_URL>>
  ELSE <<primaryBase, LEADCONNECTOR_BASE_URL>>

\* candidateBases of the custom-values handler.
CandidateBases(primaryBase) ==
  IF primaryBase = DEFAULT_GHL_BASE_URL
  THEN <<primaryBase, LEADCONNECTOR_BASE_URL>>
  ELSE IF primaryBase = LEADCONNECTOR_BASE_URL
  THEN <<primaryBase, DEFAULT_GHL_BASE_URL>>
  ELSE <<primaryBase>>

\* The URL the list handler requests with the default limit and no search
\* term, and the one the detail handler requests.
ListUrl(baseUrl) == baseUrl \o "/locations/?limit=50"
DetailUrl(baseUrl) == baseUrl \o "/locations/" \o EncodedLocationId

\* buildGhlHeaders(token).Authorization
Bearer(token) == "Bearer " \o token

\* The URLs the handlers request on a base.
UrlsOn(baseUrl) ==
  {ListUrl(baseUrl), DetailUrl(baseUrl)}
  \cup {baseUrl \o PATH_PATTERNS[p] : p \in 1..Len(PATH_PATTERNS)}

\* A request that carries the token to the two canonical hosts only: what
\* C30 excludes.
UpstreamRequestCanonicalOnly(url, token) ==
  [method |-> "GET", url |-> url,
   authorization |->
     IF url \in UrlsOn(DEFAULT_GHL_BASE_URL) \cup UrlsOn(LEADCONNECTOR_BASE_URL)
     THEN Bearer(token) ELSE Bearer("")]

\* An outbound GET request.
UpstreamRequest(url, token) ==
  [method |-> "GET", url |-> url, authorization |-> Bearer(token)]

UnreachableMessage ==
  "Unable to reach the Go High Level API. Check your base URL and network connectivity."
ListFailedMessage == "Failed to retrieve sub-accounts from Go High Level."
DetailFailedMessage == "Failed to retrieve sub-account details from Go High Level."
UnrecognizableMessage ==
  "The Go High Level API did not return recognizable sub-account details."
KnownEndpointsWarning ==
  "No custom values were found for this sub-account using the known API endpoints."

\* What the resource API answers to the n-th request of an operation: the
\* fetch throws, or a response with a status and a body, whose message,
\* when it has one, is a string.  A body that does not parse is a JSON text
\* cut short: message and data are what it was meant to say.
UpstreamAnswers(n) ==
  {[kind |-> "network", status |-> 0, parses |-> FALSE,
    message |-> Raw(FetchFailedMessage), data |-> Null]}
  \cup {[kind |-> "http", status |-> 200, parses |-> TRUE, message |-> Absent,
         data |-> "data" \o ToString(n)],
        [kind |-> "http", status |-> 200, parses |-> TRUE, message |-> Absent,
         data |-> Null],
        [kind |-> "http", status |-> 401, parses |-> TRUE,
         message |-> Raw("Invalid JWT"), data |-> Null],
        [kind |-> "http", status |-> 403, parses |-> TRUE, message |-> Absent,
         data |-> Null],
        [kind |-> "http", status |-> 404, parses |-> TRUE, message |-> Raw(""),
         data |-> Null],
        [kind |-> "http", status |-> 500, parses |-> TRUE,
         message |-> Raw("Internal error"), data |-> Null],
        [kind |-> "http", status |-> 500, parses |-> FALSE,
         message |-> Raw("Bad Gateway"), data |-> Null],
        [kind |-> "http", status |-> 502, parses |-> TRUE, message |-> Absent,
         data |-> Null]}

\* payload after `try { payload = JSON.parse(text) } catch { ... }`: a body
\* that does not parse gives no message and no data.
ParsedPayload(answer) ==
  IF answer.parses THEN [message |-> answer.message, data |-> answer.data]
  ELSE [message |-> Absent, data |-> Null]

\* (isRecord(payload) && typeof payload.message === 'string' &&
\* payload.message) || fallback
MessageOr(answer, fallback) ==
  LET payload == ParsedPayload(answer)
  IN IF IsString(payload.message) /\ payload.message.str # ""
     THEN payload.message.str ELSE fallback

\* The test for 401 alone: what C11 excludes.
Is401(status) == status = 401

IsUnauthorized(status) == status = 401 \/ status = 403

\* NextResponse.json(body, { status })
JsonResponse(status, body) == [status |-> status, body |-> body]

OperationKinds == {"list", "detail", "custom"}

\* The URL with the patterns taken from the end of the list: what C15
\* excludes.
CurrentUrlReversed(o) ==
  IF o.kind = "list" THEN ListUrl(o.bases[1])
  ELSE IF o.kind = "detail" THEN DetailUrl(o.bases[1])
  ELSE o.bases[o.base] \o PATH_PATTERNS[Len(PATH_PATTERNS) + 1 - o.pattern]

\* The URL of the request the operation with record o sends next.
CurrentUrl(o) ==
  IF o.kind = "list" THEN ListUrl(o.bases[1])
  ELSE IF o.kind = "detail" THEN DetailUrl(o.bases[1])
  ELSE o.bases[o.base] \o PATH_PATTERNS[o.pattern]

\* fetch(url, { method: 'GET', headers: buildGhlHeaders(token) }) is called.
Send(o) ==
  [o EXCEPT !.pc = "fetch",
            !.sends = Append(@, UpstreamRequest(CurrentUrl(o), o.token))]

\* The handler returns a response to its caller.
Respond(o, response) == [o EXCEPT !.pc = "responded", !.response = response]

\* The diagnostic fields of a custom-values response.
Trail(attempts) ==
  [attemptedUrls |-> [i \in 1..Len(attempts) |-> attempts[i].url],
   attemptedBaseUrls |-> [i \in 1..Len(attempts) |-> attempts[i].baseUrl],
   attemptedPaths |-> [i \in 1..Len(attempts) |-> attempts[i].path]]

\* The response to a getPrivateAccessToken() that threw before any request
\* was sent.
TokenFailureResponse(message) == JsonResponse(500, [error |-> message])

\* The response of the catch block around the requests of the list and
\* detail handlers.
UnreachableResponse == JsonResponse(502, [error |-> UnreachableMessage])

\* The response of the list and detail handlers to a response that is not
\* ok.
UpstreamErrorResponse(kind, answer) ==
  JsonResponse(answer.status,
    [error |-> MessageOr(answer, IF kind = "list" THEN ListFailedMessage
                                 ELSE DetailFailedMessage),
     statusCode |-> answer.status])

\* The response of the list and detail handlers to a response that is ok:
\* the detail handler needs a body it recognises.
SuccessResponse(o, answer) ==
  IF o.kind = "list"
  THEN JsonResponse(200, [locations |-> ParsedPayload(answer).data,
                          source |-> [url |-> CurrentUrl(o)]])
  ELSE IF ParsedPayload(answer).data = Null
  THEN JsonResponse(502, [error |-> UnrecognizableMessage])
  ELSE JsonResponse(200, [location |-> ParsedPayload(answer).data,
                          source |-> [url |-> CurrentUrl(o)]])

\* buildAttempt(baseUrl, path, payload, status, message, ok) for a base and
\* a path that are normalised already.
buildAttempt(baseUrl, path, payload, status, message, ok) ==
  [ok |-> ok, status |-> status, url |-> baseUrl \o path, baseUrl |-> baseUrl,
   path |-> path, payload |-> payload, message |-> message]

\* fetchCustomValues(baseUrl, path, accessToken) once the API answered.
fetchCustomValues(baseUrl, path, answer) ==
  IF answer.kind = "network"
  THEN buildAttempt(baseUrl, path, Null, 0, answer.message.str, FALSE)
  ELSE IF answer.status \notin 200..299
  THEN buildAttempt(baseUrl, path, Null, answer.status,
         MessageOr(answer, "Go High Level returned status "
                             \o ToString(answer.status) \o " for "
                             \o baseUrl \o path \o "."),
         FALSE)
  ELSE buildAttempt(baseUrl, path, ParsedPayload(answer).data, answer.status,
         "OK", TRUE)

\* The attempts with nothing filtered out: what C19 excludes.
AllAttemptsKept(allAttempts) == allAttempts

RECURSIVE UniqueFrom(_, _)
\* allAttempts.filter((attempt, index, array) =>
\*   array.findIndex((candidate) => candidate.url === attempt.url) === index)
UniqueFrom(attempts, seen) ==
  IF attempts = <<>> THEN <<>>
  ELSE IF Head(attempts).url \in seen THEN UniqueFrom(Tail(attempts), seen)
  ELSE <<Head(attempts)>>
         \o UniqueFrom(Tail(attempts), seen \cup {Head(attempts).url})

uniqueAttempts(allAttempts) == UniqueFrom(allAttempts, {})

IsNetworkFailure(status) == status = 0
IsNot404(status) == status # 404

\* result.attempts.find((attempt) => attempt.status === 0)
FirstNetworkFailure(pass) ==
  pass[CHOOSE i \in 1..Len(pass) :
         /\ IsNetworkFailure(pass[i].status)
         /\ \A j \in 1..(i - 1) : ~IsNetworkFailure(pass[j].status)]

\* result.attempts.find((attempt) => attempt.status !== 404)
FirstNot404(pass) ==
  pass[CHOOSE i \in 1..Len(pass) :
         /\ IsNot404(pass[i].status)
         /\ \A j \in 1..(i - 1) : ~IsNot404(pass[j].status)]

\* A successful result that lists each URL once: what C29 excludes.
ConcludeUniqueTrail(o) ==
  LET success == o.pass[Len(o.pass)].ok
      trail == Trail(o.allAttempts)
      unique == uniqueAttempts(o.allAttempts)
  IN IF success
     THEN Respond(o, JsonResponse(200,
            [customValues |-> o.pass[Len(o.pass)].payload,
             source |-> [url |-> o.pass[Len(o.pass)].url],
             resolvedBaseUrl |-> o.pass[Len(o.pass)].baseUrl] @@ Trail(unique)))
     ELSE IF \E i \in 1..Len(o.pass) : IsNetworkFailure(o.pass[i].status)
     THEN Respond(o, JsonResponse(502,
            [error |-> FirstNetworkFailure(o.pass).message] @@ trail))
     ELSE IF \E i \in 1..Len(o.pass) : IsNot404(o.pass[i].status)
     THEN Respond(o, JsonResponse(FirstNot404(o.pass).status,
            [error |-> FirstNot404(o.pass).message,
             statusCode |-> FirstNot404(o.pass).status] @@ trail))
     ELSE IF o.base < Len(o.bases)
     THEN Send([o EXCEPT !.base = @ + 1, !.pattern = 1, !.pass = <<>>])
     ELSE Respond(o, JsonResponse(200,
            [customValues |-> <<>>, count |-> 0,
             warning |-> KnownEndpointsWarning,
             source |-> [url |-> unique[Len(unique)].url],
             resolvedBaseUrl |-> Null] @@ Trail(unique)))

\* The custom-values handler after a pass that is not followed by an
\* authorization retry: it responds, or goes on to the next base.
Conclude(o) ==
  LET success == o.pass[Len(o.pass)].ok
      trail == Trail(o.allAttempts)
      unique == uniqueAttempts(o.allAttempts)
  IN IF success
     THEN Respond(o, JsonResponse(200,
            [customValues |-> o.pass[Len(o.pass)].payload,
             source |-> [url |-> o.pass[Len(o.pass)].url],
             resolvedBaseUrl |-> o.pass[Len(o.pass)].baseUrl] @@ trail))
     ELSE IF \E i \in 1..Len(o.pass) : IsNetworkFailure(o.pass[i].status)
     THEN Respond(o, JsonResponse(502,
            [error |-> FirstNetworkFailure(o.pass).message] @@ trail))
     ELSE IF \E i \in 1..Len(o.pass) : IsNot404(o.pass[i].status)
     THEN Respond(o, JsonResponse(FirstNot404(o.pass).status,
            [error |-> FirstNot404(o.pass).message,
             statusCode |-> FirstNot404(o.pass).status] @@ trail))
     ELSE IF o.base < Len(o.bases)
     THEN Send([o EXCEPT !.base = @ + 1, !.pattern = 1, !.pass = <<>>])
     ELSE Respond(o, JsonResponse(200,
            [customValues |-> <<>>, count |-> 0,
             warning |-> KnownEndpointsWarning,
             source |-> [url |-> unique[Len(unique)].url],
             resolvedBaseUrl |-> Null] @@ Trail(unique)))

\* An authorization retry after every pass that met a 401 or 403: what C24
\* excludes.
AfterPassUnguarded(o) ==
  IF /\ ~o.pass[Len(o.pass)].ok
     /\ \E i \in 1..Len(o.pass) : IsUnauthorized(o.pass[i].status)
  THEN [o EXCEPT !.retryUsed = TRUE, !.pc = "reacquire",
                 !.invalidations = @ + 1, !.gets = @ + 1]
  ELSE Conclude(o)

\* The custom-values handler after requestCustomValuesForBase() returned
\* the pass o.pass: one authorization retry, or the conclusion.
AfterPass(o) ==
  IF /\ ~o.pass[Len(o.pass)].ok
     /\ \E i \in 1..Len(o.pass) : IsUnauthorized(o.pass[i].status)
     /\ ~o.retryUsed
  THEN [o EXCEPT !.retryUsed = TRUE, !.pc = "reacquire",
                 !.invalidations = @ + 1, !.gets = @ + 1]
  ELSE Conclude(o)

\* A pass that goes on to the next pattern after any failure: what C16
\* excludes.
AfterAttemptLenient(o, attempt) ==
  LET pass == Append(o.pass, attempt)
  IN IF attempt.ok \/ o.pattern = Len(PATH_PATTERNS)
     THEN AfterPass([o EXCEPT !.pass = pass, !.allAttempts = @ \o pass])
     ELSE Send([o EXCEPT !.pass = pass, !.pattern = @ + 1])

\* A handler that keeps the attempts of the latest pass only: what C18
\* excludes.
AfterAttemptLatestPass(o, attempt) ==
  LET pass == Append(o.pass, attempt)
  IN IF attempt.ok \/ attempt.status = 0 \/ attempt.status # 404
        \/ o.pattern = Len(PATH_PATTERNS)
     THEN AfterPass([o EXCEPT !.pass = pass, !.allAttempts = pass])
     ELSE Send([o EXCEPT !.pass = pass, !.pattern = @ + 1])

\* requestCustomValuesForBase() after the attempt at the current pattern.
AfterAttempt(o, attempt) ==
  LET pass == Append(o.pass, attempt)
  IN IF attempt.ok \/ attempt.status = 0 \/ attempt.status # 404
        \/ o.pattern = Len(PATH_PATTERNS)
     THEN AfterPass([o EXCEPT !.pass = pass, !.allAttempts = @ \o pass])
     ELSE Send([o EXCEPT !.pass = pass, !.pattern = @ + 1])

\* What the handler heard once the answer arrived.
Heard(o, answer) ==
  [o EXCEPT !.received = Append(@, answer.status),
            !.unparsed = IF answer.kind = "http" /\ ~answer.parses
                         THEN @ \cup {Len(o.received) + 1} ELSE @]

\* A list or detail handler whose JSON.parse is not caught where it is
\* called, so that the catch block around the requests takes it: what C22
\* excludes.
AfterAnswerStrict(o, answer) ==
  LET heard == Heard(o, answer)
  IN IF o.kind = "custom"
     THEN AfterAttempt(heard,
            fetchCustomValues(o.bases[o.base], PATH_PATTERNS[o.pattern], answer))
     ELSE IF answer.kind = "network" THEN Respond(heard, UnreachableResponse)
     ELSE IF IsUnauthorized(answer.status) /\ Len(o.received) = 0
     THEN [heard EXCEPT !.pc = "reacquire", !.invalidations = @ + 1,
                        !.gets = @ + 1]
     ELSE IF ~answer.parses THEN Respond(heard, UnreachableResponse)
     ELSE IF answer.status \notin 200..299
     THEN Respond(heard, UpstreamErrorResponse(o.kind, answer))
     ELSE Respond(heard, SuccessResponse(o, answer))

\* A handler after the resource API answered its request: the record of
\* its operation, at "reacquire" when it invalidates the cache and asks
\* for a token again.
AfterAnswer(o, answer) ==
  LET heard == Heard(o, answer)
  IN IF o.kind = "custom"
     THEN AfterAttempt(heard,
            fetchCustomValues(o.bases[o.base], PATH_PATTERNS[o.pattern], answer))
     ELSE IF answer.kind = "network" THEN Respond(heard, UnreachableResponse)
     ELSE IF IsUnauthorized(answer.status) /\ Len(o.received) = 0
     THEN [heard EXCEPT !.pc = "reacquire", !.invalidations = @ + 1,
                        !.gets = @ + 1]
     ELSE IF answer.status \notin 200..299
     THEN Respond(heard, UpstreamErrorResponse(o.kind, answer))
     ELSE Respond(heard, SuccessResponse(o, answer))

\* A handler after its getPrivateAccessToken() returned or threw.
AfterToken(o, result) ==
  IF result.kind = "error"
  THEN IF o.gets = 1 THEN Respond(o, TokenFailureResponse(result.value))
       ELSE IF o.kind = "custom"
       THEN Respond(o, JsonResponse(500,
              [error |-> result.value] @@ Trail(o.allAttempts)))
       ELSE Respond(o, UnreachableResponse)
  ELSE Send([o EXCEPT !.token = result.value, !.pattern = 1, !.pass = <<>>])

\* A handler is called: it reads its request and calls
\* getPrivateAccessToken().
StartOperation(h, kinds, cap) ==
  /\ op[h].pc \in {"idle", "responded"}
  /\ GetCallWithin(h, cap)
  /\ \E kind \in kinds, candidate \in BaseUrlCandidates :
       LET primaryBase == sanitiseBaseUrl(candidate)
       IN op' = [op EXCEPT ![h] =
                   [NoOperation EXCEPT
                      !.kind = kind, !.pc = "token", !.gets = 1,
                      !.bases = IF kind = "custom"
                                THEN CandidateBases(primaryBase)
                                ELSE <<primaryBase>>,
                      !.base = 1, !.pattern = 1,
                      !.coldStart = (cachedToken = NoToken),
                      !.acquired = Len(acq') - Len(acq)]]

\* The handler's `await getPrivateAccessToken()` completes.
TokenReady(h) ==
  /\ op[h].pc = "token"
  /\ handler[h].pc = "done"
  /\ handler' = [handler EXCEPT ![h] = IdleHandler]
  /\ acq' = Collect(h)
  /\ op' = [op EXCEPT ![h] = AfterToken(op[h], handler[h].result)]
  /\ lastOp' = "other"
  /\ lastResponse' = NoResponse
  /\ UNCHANGED <<env, now, cachedToken, inFlight, lastKnownRefreshToken, script>>

\* The resource API answers the handler's request, and the handler runs
\* to its next await or to its response.
UpstreamAnswer(h, answers, cap) ==
  /\ op[h].pc = "fetch"
  /\ \E answer \in answers :
       LET next == AfterAnswer(op[h], answer)
       IN IF next.pc = "reacquire"
          THEN /\ cachedToken' = InvalidatedCache
               /\ IF CacheValidWith(InvalidatedCache)
                  THEN /\ handler' = [handler EXCEPT ![h] =
                              [pc |-> "done", joined |-> 0,
                               result |-> [kind |-> "token",
                                           value |-> InvalidatedCache.accessToken]]]
                       /\ UNCHANGED <<inFlight, acq>>
                  ELSE AwaitInFlight(h, cap)
               /\ op' = [op EXCEPT ![h] =
                           [next EXCEPT !.pc = "token",
                                        !.acquired = @ + Len(acq') - Len(acq)]]
          ELSE /\ op' = [op EXCEPT ![h] = next]
               /\ UNCHANGED <<cachedToken, inFlight, acq, handler>>
  /\ lastOp' = "other"
  /\ lastResponse' = NoResponse
  /\ UNCHANGED <<env, now, lastKnownRefreshToken, script>>

\* One handler serves list and detail operations, one after the other, in
\* a process that may lack credentials or grants.
InitDispatch == InitIn(DefaultBufferEnvironments)

StartDispatch(h) == StartOperation(h, {"list", "detail"}, MaxAcq)

\* The token endpoint's answers for the list and detail handlers: those of
\* the concurrent model, and a 200 whose body is not JSON.
DispatchResponses(minted) ==
  CoarseResponses(minted)
  \cup {r \in TokenResponses(minted) : r.status = 200 /\ ~r.parses}

EndpointAnswersDispatch(a) ==
  TokenResponse(a, DispatchResponses(MintedToken(a, acq[a].params.grant_type)))

UpstreamAnswerNow(h) ==
  UpstreamAnswer(h, UpstreamAnswers(Len(op[h].sends)), MaxAcq)

NextDispatch ==
  \/ StartDispatch(1)
  \/ GetResume(1)
  \/ TokenReady(1)
  \/ UpstreamAnswerNow(1)
  \/ \E a \in 1..Len(acq) : EndpointAnswersDispatch(a)
  \/ \E a \in 1..Len(acq) : ObtainResume(a)
  \/ \E a \in 1..Len(acq) : FinallyCallback(a)
  \/ Tick

DispatchSpec == InitDispatch /\ [][NextDispatch]_vars

\* One handler serves custom-values operations, one after the other.
StartProbe(h) == StartOperation(h, {"custom"}, MaxAcq)

\* The answers the probes draw from.
ProbeAnswers(n) ==
  {answer \in UpstreamAnswers(n) :
     /\ answer.kind = "network" \/ answer.parses
     /\ answer.status \in {0, 401, 404, 500, 502} \/ answer.data # Null}

ProbeAnswerNow(h) == UpstreamAnswer(h, ProbeAnswers(Len(op[h].sends)), MaxAcq)

NextProbe ==
  \/ StartProbe(1)
  \/ GetResume(1)
  \/ TokenReady(1)
  \/ ProbeAnswerNow(1)
  \/ \E a \in 1..Len(acq) : EndpointAnswers(a)
  \/ \E a \in 1..Len(acq) : ObtainResume(a)
  \/ \E a \in 1..Len(acq) : FinallyCallback(a)
  \/ Tick

ProbeSpec == InitDispatch /\ [][NextProbe]_vars

\* Two list requests are served concurrently, each against the default
\* host, in a process that has its credentials and a refresh token.
InitShared ==
  InitIn({e \in DefaultBufferEnvironments :
            /\ e.GHL_PRIVATE_CLIENT_ID # Null
            /\ e.GHL_PRIVATE_REFRESH_TOKEN # Null
            /\ e.GHL_PRIVATE_AUTH_CODE = Null})

StartShared(h) ==
  /\ StartOperation(h, {"list"}, MaxAcq)
  /\ op'[h].bases = <<DEFAULT_GHL_BASE_URL>>

\* The resource API accepts the token or rejects it.
SharedAnswers(n) ==
  {answer \in UpstreamAnswers(n) :
     /\ answer.kind = "http"
     /\ answer.parses
     /\ answer.status \in {200, 401}}

UpstreamAnswerShared(h) ==
  UpstreamAnswer(h, SharedAnswers(Len(op[h].sends)), MaxAcq)

NextShared ==
  \/ \E h \in Handlers : StartShared(h)
  \/ \E h \in Handlers : GetResume(h)
  \/ \E h \in Handlers : TokenReady(h)
  \/ \E h \in Handlers : UpstreamAnswerShared(h)
  \/ \E a \in 1..Len(acq) : EndpointAnswers(a)
  \/ \E a \in 1..Len(acq) : ObtainResume(a)
  \/ \E a \in 1..Len(acq) : FinallyCallback(a)
  \/ Tick

SharedSpec == InitShared /\ [][NextShared]_vars

\* Two requests of any kind and with any baseUrl are served concurrently
\* within the lifetime of a token, while the resource API answers with what
\* was asked for.
StartAnyBase(h) == StartOperation(h, OperationKinds, MaxAcq - 1)

AnyBaseAnswers(n) ==
  {answer \in UpstreamAnswers(n) :
     /\ answer.kind = "http"
     /\ answer.parses
     /\ answer.data # Null}

UpstreamAnswerAnyBase(h) ==
  UpstreamAnswer(h, AnyBaseAnswers(Len(op[h].sends)), MaxAcq - 1)

NextAnyBase ==
  \/ \E h \in Handlers : StartAnyBase(h)
  \/ \E h \in Handlers : GetResume(h)
  \/ \E h \in Handlers : TokenReady(h)
  \/ \E h \in Handlers : UpstreamAnswerAnyBase(h)
  \/ \E a \in 1..Len(acq) : EndpointAnswers(a)
  \/ \E a \in 1..Len(acq) : ObtainResume(a)
  \/ \E a \in 1..Len(acq) : FinallyCallback(a)

AnyBaseSpec == InitShared /\ [][NextAnyBase]_vars

\* ------------------------------------------------ scripts/ghl-auth.js
\* Command-line arguments in one behaviour.
MaxArgs == 3

REFRESH_TOKEN_KEY == <<"GHL_PRIVATE_REFRESH_TOKEN">>
Equals == "="
Hash == "#"

\* One element of process.argv: a flag with or without "=value", or a word
\* that is no flag.
Flag(name) == [flag |-> name, value |-> Null, raw |-> name]
FlagValue(name, value) ==
  [flag |-> name, value |-> value, raw |-> name \o "=" \o value]
Word(text) == [flag |-> Null, value |-> Null, raw |-> text]

ArgChoices ==
  {Flag("--save"), Flag("--code"), FlagValue("--code", "c1"), Word("c1"),
   FlagValue("--refresh-token", "R9"), FlagValue("--refresh", ""),
   FlagValue("--redirect-uri", "https://app.example/cb"),
   FlagValue("--client-id", "cli"), Flag("--verbose")}

ArgVectors == UNION {[1..n -> ArgChoices] : n \in 0..MaxArgs}

\* process.env of the script, each value as `?.trim() || null` leaves it.
ScriptEnvironments ==
  [GHL_PRIVATE_CLIENT_ID : {Null, "id"},
   GHL_PRIVATE_CLIENT_SECRET : {Null, "secret"},
   GHL_PRIVATE_REDIRECT_URI : {Null, "https://env.example/cb"}]

\* .env.local: missing, or its lines, each line the sequence of its
\* pieces: white space " ", "=", "#", or other text.
NoFile == [exists |-> FALSE, lines |-> <<>>]
FileOf(lines) == [exists |-> TRUE, lines |-> lines]

EnvFiles ==
  {NoFile,
   FileOf(<<>>),
   FileOf(<<<<"#", " ", "secrets">>,
            <<"A", "=", "1">>,
            <<"GHL_PRIVATE_REFRESH_TOKEN", "=", "old">>,
            <<" ", "B", " ", "=", " ", "2", " ">>>>),
   FileOf(<<<<"A", "=", "1">>,
            <<>>,
            <<"A", "=", "x", "=", "y">>,
            <<"=", "z">>,
            <<"junk">>,
            <<" ", "#", "GHL_PRIVATE_REFRESH_TOKEN", "=", "no">>,
            <<"export", " ", "C", "=">>>>)}

\* A string is truthy.
Truthy(value) == value # Null /\ value # ""

RECURSIVE ParseFrom(_, _, _)
\* The loop of parseArgs(argv) from index on.
ParseFrom(argv, index, options) ==
  IF index > Len(argv) THEN options
  ELSE LET arg == argv[index]
           inline == arg.value # Null
           \* value ?? argv[++index] ?? null
           taken == IF inline THEN arg.value
                    ELSE IF index + 1 <= Len(argv) THEN argv[index + 1].raw
                    ELSE Null
           after == IF inline THEN index + 1 ELSE index + 2
       IN IF arg.flag = Null THEN ParseFrom(argv, index + 1, options)
          ELSE IF arg.flag = "--code"
          THEN ParseFrom(argv, after, [options EXCEPT !.code = taken])
          ELSE IF arg.flag \in {"--refresh-token", "--refresh"}
          THEN ParseFrom(argv, after, [options EXCEPT !.refreshToken = taken])
          ELSE IF arg.flag = "--client-id"
          THEN ParseFrom(argv, after, [options EXCEPT !.clientId = taken])
          ELSE IF arg.flag = "--client-secret"
          THEN ParseFrom(argv, after, [options EXCEPT !.clientSecret = taken])
          ELSE IF arg.flag = "--redirect-uri"
          THEN ParseFrom(argv, after, [options EXCEPT !.redirectUri = taken])
          ELSE IF arg.flag = "--save"
          THEN ParseFrom(argv, index + 1, [options EXCEPT !.save = TRUE])
          ELSE ParseFrom(argv, index + 1, options)

parseArgs(argv, environment) ==
  ParseFrom(argv, 1,
    [code |-> Null, refreshToken |-> Null,
     clientId |-> environment.GHL_PRIVATE_CLIENT_ID,
     clientSecret |-> environment.GHL_PRIVATE_CLIENT_SECRET,
     redirectUri |-> environment.GHL_PRIVATE_REDIRECT_URI,
     userType |-> DEFAULT_USER_TYPE, save |-> FALSE])

\* assertCredentials(options) returns rather than throws.
assertCredentials(options) ==
  Truthy(options.clientId) /\ Truthy(options.clientSecret)

\* requestToken(config) up to its fetch: the form body it sends, or the
\* error it throws.
ScriptRequest(config) ==
  LET params == [client_id |-> config.clientId,
                 client_secret |-> config.clientSecret,
                 user_type |-> config.userType]
  IN IF Truthy(config.refreshToken)
     THEN [thrown |-> FALSE,
           body |-> params @@ RefreshParams(config.refreshToken)]
     ELSE IF Truthy(config.code)
     THEN IF ~Truthy(config.redirectUri)
          THEN [thrown |-> TRUE, body |-> params]
          ELSE [thrown |-> FALSE,
                body |-> params @@ AuthorizationCodeParams(config.code)
                           @@ [redirect_uri |-> config.redirectUri]]
     ELSE [thrown |-> TRUE, body |-> params]

\* requestToken(config) from the endpoint's answer: the token it returns,
\* or that it throws.  A body that does not parse is thrown on.
ScriptOutcome(response) ==
  LET payload == response.payload
      accessToken == IF IsString(payload.access_token)
                     THEN Trim(payload.access_token) ELSE ""
  IN IF response.kind = "network" \/ ~response.parses \/ ~ResponseOk(response)
        \/ accessToken = ""
     THEN [ok |-> FALSE, accessToken |-> Null, refreshToken |-> Null]
     ELSE [ok |-> TRUE, accessToken |-> accessToken,
           refreshToken |-> IF IsString(payload.refresh_token)
                            THEN Trim(payload.refresh_token) ELSE Null]

\* The answers the token endpoint gives the script.
ScriptResponses ==
  {r \in TokenResponses("ATs") :
     \/ r.kind = "network"
     \/ r.status = 400
     \/ r.status = 200 /\ ~r.parses
     \/ r.status = 200 /\ r.parses /\ r.payload.expires_in = Absent}

\* The position of the first "=" of a line, or 0.
FirstEquals(line) ==
  IF \E i \in 1..Len(line) : line[i] = Equals
  THEN CHOOSE i \in 1..Len(line) :
         line[i] = Equals /\ \A j \in 1..(i - 1) : line[j] # Equals
  ELSE 0

\* const [key, ...rest] = line.split('='); rest.join('=')
KeyOf(line) ==
  IF FirstEquals(line) = 0 THEN line ELSE SubSeq(line, 1, FirstEquals(line) - 1)
RestOf(line) ==
  IF FirstEquals(line) = 0 THEN <<>>
  ELSE SubSeq(line, FirstEquals(line) + 1, Len(line))

\* line.trim()
TrimLine(line) == DropTrailing(TrimStart(line), Whitespace)

\* map.set(key, value) on a Map kept as the sequence of its entries in
\* insertion order.
MapSet(map, key, value) ==
  IF \E i \in 1..Len(map) : map[i].key = key
  THEN [i \in 1..Len(map) |->
          IF map[i].key = key THEN [key |-> key, value |-> value] ELSE map[i]]
  ELSE Append(map, [key |-> key, value |-> value])

RECURSIVE MapOfLines(_, _)
\* The loop over the lines that are neither empty nor comments.
MapOfLines(lines, map) ==
  IF lines = <<>> THEN map
  ELSE LET line == TrimLine(Head(lines))
       IN IF line = <<>> \/ Head(line) = Hash \/ KeyOf(line) = <<>>
          THEN MapOfLines(Tail(lines), map)
          ELSE MapOfLines(Tail(lines),
                 MapSet(map, TrimLine(KeyOf(line)), RestOf(line)))

\* A Map that drops the entries after its first: what C23 excludes.
upsertFirstEntryOnly(file, key, value) ==
  LET map == MapOfLines(file.lines, <<>>)
      kept == IF map = <<>> THEN map ELSE <<map[1]>>
      next == MapSet(kept, key, <<value>>)
  IN FileOf([i \in 1..Len(next) |-> next[i].key \o <<Equals>> \o next[i].value])

\* upsertEnvValues({ [key]: value }) for a value that is truthy: the file
\* it writes.
upsertEnvValues(file, key, value) ==
  LET map == MapSet(MapOfLines(file.lines, <<>>), key, <<value>>)
  IN FileOf([i \in 1..Len(map) |-> map[i].key \o <<Equals>> \o map[i].value])

\* The script is started.
ScriptStarts ==
  [pc : {"ready"}, argv : ArgVectors, environment : ScriptEnvironments,
   original : EnvFiles]

InitScript ==
  /\ \E start \in ScriptStarts :
       script = [pc |-> "ready", argv |-> start.argv,
                 environment |-> start.environment,
                 options |-> parseArgs(start.argv, start.environment),
                 original |-> start.original, file |-> start.original,
                 request |-> [none |-> TRUE], token |-> ScriptOutcome(NoResponse),
                 exitCode |-> 0 - 1]
  /\ env \in {e \in DefaultBufferEnvironments :
                /\ e.GHL_PRIVATE_CLIENT_ID = Null
                /\ e.GHL_PRIVATE_REFRESH_TOKEN = Null
                /\ e.GHL_PRIVATE_AUTH_CODE = Null}
  /\ now = 0
  /\ cachedToken = NoToken
  /\ inFlight = 0
  /\ lastKnownRefreshToken = env.GHL_PRIVATE_REFRESH_TOKEN
  /\ acq = <<>>
  /\ lastResponse = NoResponse
  /\ handler = [h \in Handlers |-> IdleHandler]
  /\ lastOp = "other"
  /\ op = [h \in Handlers |-> NoOperation]

\* main() up to the fetch of requestToken(), or to process.exit(1).
ScriptMain ==
  /\ script.pc = "ready"
  /\ LET request == ScriptRequest(script.options)
     IN IF ~assertCredentials(script.options) \/ request.thrown
        THEN script' = [script EXCEPT !.pc = "exited", !.exitCode = 1]
        ELSE script' = [script EXCEPT !.pc = "fetch", !.request = request.body]
  /\ UNCHANGED <<env, now, cachedToken, inFlight, lastKnownRefreshToken, acq,
                 lastResponse, handler, lastOp, op>>

\* main() from the endpoint's answer to the end of the process.
ScriptAnswer ==
  /\ script.pc = "fetch"
  /\ \E response \in ScriptResponses :
       LET token == ScriptOutcome(response)
       IN IF ~token.ok
          THEN script' = [script EXCEPT !.pc = "exited", !.exitCode = 1]
          ELSE script' =
                 [script EXCEPT
                    !.pc = "exited", !.exitCode = 0, !.token = token,
                    !.file = IF script.options.save /\ Truthy(token.refreshToken)
                             THEN upsertEnvValues(script.file, REFRESH_TOKEN_KEY,
                                                  token.refreshToken)
                             ELSE @]
  /\ UNCHANGED <<env, now, cachedToken, inFlight, lastKnownRefreshToken, acq,
                 lastResponse, handler, lastOp, op>>

NextScript == ScriptMain \/ ScriptAnswer

ScriptSpec == InitScript /\ [][NextScript]_vars

\* ---------------------------------------------------------------- claims
Acquisitions == 1..Len(acq)

\* obtainFreshToken() run a has not returned or thrown yet.
InProgress(a) == acq[a].pc \in {"fetch", "settled"}

\* A token is cached and its expiry lies in the future.
Unexpired == cachedToken # NoToken /\ cachedToken.expiresAt > now

\* Handler h calls getPrivateAccessToken() in this step.
Calls(h) == handler[h].pc = "idle" /\ handler'[h].pc # "idle"

\* Handler h's getPrivateAccessToken() returns or throws in this step.
Completes(h) == handler[h].pc = "awaiting" /\ handler'[h].pc = "done"

\* obtainFreshToken() run a awaits the endpoint's answer to a request.
RequestOutstanding(a) == acq[a].pc = "fetch"

\* C1: at most one obtainFreshToken() acquisition is in progress at any
\* time, in every interleaving of get and invalidate calls: no two
\* acquisitions have a token request outstanding together.
C1_SingleFlight ==
  Cardinality({a \in Acquisitions : RequestOutstanding(a)}) <= 1

\* C1: a get() issued while an acquisition is underway joins it and starts
\* no second one.
C1_JoinsInFlight ==
  [][\A h \in Handlers :
       (Calls(h) /\ ~Unexpired /\ \E a \in Acquisitions : InProgress(a))
         => /\ Len(acq') = Len(acq)
            /\ InProgress(handler'[h].joined)]_vars

\* C2: the calls that awaited the same acquisition complete with the same
\* outcome: the access token minted for that acquisition when it succeeded,
\* its error when it failed.
C2_SharedOutcome ==
  \A h \in Handlers :
    (handler[h].pc = "done" /\ handler[h].joined # 0) =>
      LET a == handler[h].joined
      IN /\ acq[a].pc \in {"fulfilled", "rejected"}
         /\ acq[a].pc = "fulfilled" =>
              handler[h].result =
                [kind |-> "token",
                 value |-> MintedToken(a, acq[a].params.grant_type)]
         /\ acq[a].pc = "rejected" =>
              handler[h].result = [kind |-> "error", value |-> acq[a].error]
         /\ \A g \in Handlers :
              (handler[g].pc = "done" /\ handler[g].joined = a) =>
                handler[g].result = handler[h].result

\* Two calls that awaited one acquisition have both returned its token
\* after the cache was invalidated.
C2_Witness ==
  \E h, g \in Handlers :
    /\ h # g
    /\ handler[h].pc = "done" /\ handler[g].pc = "done"
    /\ handler[h].joined # 0 /\ handler[g].joined = handler[h].joined
    /\ handler[h].result.kind = "token"
    /\ cachedToken = NoToken

\* C3: while a token is cached with expiresAt > now, get() returns its
\* access token, starts no acquisition, sends nothing and leaves
\* cachedToken, inFlight and lastKnownRefreshToken as they are; at
\* now = expiresAt the token counts as expired and get() awaits an
\* acquisition.
C3_CacheHit ==
  [][\A h \in Handlers :
       Calls(h) =>
         /\ Unexpired =>
              /\ handler'[h] =
                   [pc |-> "done", joined |-> 0,
                    result |-> [kind |-> "token",
                                value |-> cachedToken.accessToken]]
              /\ UNCHANGED <<cachedToken, inFlight, lastKnownRefreshToken, acq>>
         /\ (cachedToken # NoToken /\ cachedToken.expiresAt = now) =>
              /\ handler'[h].pc = "awaiting"
              /\ handler'[h].joined # 0]_vars

\* One call was served from the cache, and a later one, made at the very
\* millisecond the token expires, awaits an acquisition.
C3_Witness ==
  \E h, g \in Handlers :
    /\ handler[h].pc = "done" /\ handler[h].joined = 0
    /\ handler[h].result.value = cachedToken.accessToken
    /\ handler[g].pc = "awaiting"
    /\ cachedToken.expiresAt = now

\* The access token minted for the grant that acquisition a is at.
MintedFor(a) == MintedToken(a, acq[a].params.grant_type)

\* C4: with an expired token cached and inFlight null, one get() starts
\* exactly one acquisition; when a grant of an acquisition succeeds the
\* cache holds the newly minted token; and the call returns that token.
C4_ExpiredRefresh ==
  [][/\ \A h \in Handlers :
          (Calls(h) /\ cachedToken # NoToken /\ cachedToken.expiresAt <= now
             /\ inFlight = 0)
            => /\ Len(acq') = Len(acq) + 1
               /\ inFlight' = Len(acq')
               /\ handler'[h].pc = "awaiting"
               /\ handler'[h].joined = Len(acq')
     /\ \A h \in Handlers :
          Completes(h) =>
            /\ Len(acq') = Len(acq)
            /\ acq[handler[h].joined].pc = "fulfilled" =>
                 handler'[h].result =
                   [kind |-> "token", value |-> MintedFor(handler[h].joined)]
     /\ \A a \in Acquisitions :
          (acq[a].pc = "fetch" /\ acq'[a].pc = "settled" /\ acq'[a].ptr.ok)
            => /\ cachedToken' = acq'[a].ptr.token
               /\ cachedToken'.accessToken = MintedFor(a)
               /\ cachedToken'.accessToken # cachedToken.accessToken]_vars

\* A call made with an expired token cached and inFlight null awaits the
\* acquisition it started, whose request is outstanding.
C4_Witness ==
  \E h \in Handlers :
    /\ handler[h].pc = "awaiting"
    /\ handler[h].joined = Len(acq) /\ inFlight = Len(acq)
    /\ acq[Len(acq)].pc = "fetch"
    /\ cachedToken # NoToken /\ cachedToken.expiresAt <= now

\* The endpoint's answer is a 2xx response with a non-empty access_token.
Succeeded(response) ==
  /\ response.kind = "http" /\ response.status = 200 /\ response.parses
  /\ response.payload.access_token # Absent
  /\ response.payload.access_token.str # ""

\* C5: after a successful response whose expires_in is an integer or is
\* missing (counted as 0), expiresAt = issuance + 1000 * max(expires_in -
\* TOKEN_BUFFER, 30); after any successful response expiresAt is at least
\* 30 seconds after issuance, so the new token is not expired.
C5_Expiry ==
  Succeeded(lastResponse) =>
    LET e == lastResponse.payload.expires_in
    IN /\ e = Absent =>
            cachedToken.expiresAt = now + 1000 * Max(0 - TOKEN_BUFFER, 30)
       /\ (e # Absent /\ e.type = "number") =>
            cachedToken.expiresAt = now + 1000 * Max(e.value - TOKEN_BUFFER, 30)
       /\ cachedToken.expiresAt >= now + 30 * 1000
       /\ cachedToken.expiresAt > now

\* A response whose expires_in is smaller than the buffer was cached with
\* the floor of 30 seconds.
C5_Witness ==
  /\ Succeeded(lastResponse)
  /\ lastResponse.payload.expires_in = [type |-> "number", value |-> 45]
  /\ cachedToken.expiresAt = now + 30000
  /\ now > 0

\* C6: invalidatePrivateAccessToken() sets cachedToken to null and changes
\* nothing else; a get() made with cachedToken null and inFlight null
\* starts a new acquisition.
C6_Invalidate ==
  [][/\ lastOp' = "invalidate" =>
          /\ cachedToken' = NoToken
          /\ UNCHANGED <<env, now, inFlight, lastKnownRefreshToken, acq, handler>>
     /\ \A h \in Handlers :
          (Calls(h) /\ cachedToken = NoToken /\ inFlight = 0) =>
            /\ Len(acq') = Len(acq) + 1
            /\ inFlight' = Len(acq')
            /\ handler'[h].joined = Len(acq')]_vars

\* The cache was invalidated while an acquisition was in flight and a
\* refresh token was known.
C6_Witness ==
  /\ lastOp = "invalidate"
  /\ cachedToken = NoToken
  /\ inFlight # 0 /\ InProgress(inFlight)
  /\ lastKnownRefreshToken # Null

\* The grants of the requests acquisition a sent, in order.
GrantsSent(a) == [i \in 1..Len(acq[a].sent) |-> acq[a].sent[i].grant_type]

\* C7: an acquisition tries the refresh-token grant first when a refresh
\* token is known, and never uses the authorization code once the refresh
\* grant succeeded; it tries the authorization-code grant only when no
\* refresh token is known or the refresh grant failed, and then
\* lastKnownRefreshToken is null when the fallback starts; it sends at most
\* two requests, refresh before authorization code.
C7_GrantOrder ==
  /\ [](\A a \in Acquisitions :
          acq[a].pc # "retired" =>
            /\ GrantsSent(a) \in {<<>>, <<"refresh_token">>, <<"authorization_code">>,
                                  <<"refresh_token", "authorization_code">>}
            /\ acq[a].refreshToken # Null =>
                 /\ acq[a].attempted[1] = "refresh_token"
                 /\ \A i \in 1..Len(acq[a].sent) :
                      acq[a].sent[i].grant_type = "refresh_token" =>
                        acq[a].sent[i].refresh_token = acq[a].refreshToken
            /\ (\E i \in 1..Len(acq[a].attempted) :
                  acq[a].attempted[i] = "authorization_code") =>
                 \/ acq[a].refreshToken = Null /\ Len(acq[a].attempted) = 1
                 \/ /\ acq[a].attempted = <<"refresh_token", "authorization_code">>
                    /\ Len(acq[a].attemptErrors) >= 1
            /\ (acq[a].pc = "fulfilled"
                  /\ acq[a].token.accessToken = MintedToken(a, "refresh_token")) =>
                 acq[a].attempted = <<"refresh_token">>)
  /\ [][\A a \in Acquisitions :
          (Len(acq[a].attempted) = 1 /\ Len(acq'[a].attempted) = 2) =>
            /\ ~acq[a].ptr.ok
            /\ lastKnownRefreshToken' = Null]_vars

\* An acquisition whose refresh grant failed awaits the answer to its
\* authorization-code request.
C7_Witness ==
  \E a \in Acquisitions :
    /\ acq[a].pc = "fetch"
    /\ GrantsSent(a) = <<"refresh_token", "authorization_code">>
    /\ lastKnownRefreshToken = Null

\* C8: an acquisition all of whose attempted grants failed fails with the
\* messages of those grants, one for each grant attempted, in the order
\* of the attempts, joined with ' | '.
C8_ErrorMessage ==
  /\ [](\A a \in Acquisitions :
          (acq[a].pc = "rejected" /\ Len(acq[a].attempted) > 0) =>
            /\ Len(acq[a].attemptErrors) = Len(acq[a].attempted)
            /\ Len(acq[a].attempted) = 1 => acq[a].error = acq[a].attemptErrors[1]
            /\ Len(acq[a].attempted) = 2 =>
                 /\ acq[a].attempted = <<"refresh_token", "authorization_code">>
                 /\ acq[a].error =
                      acq[a].attemptErrors[1] \o " | " \o acq[a].attemptErrors[2])
  /\ [][\A a \in Acquisitions :
          (acq[a].pc = "settled" /\ ~acq[a].ptr.ok /\ acq'[a] # acq[a]) =>
            acq'[a].attemptErrors =
              Append(acq[a].attemptErrors, acq[a].ptr.message)]_vars

\* An acquisition failed after its refresh grant and its authorization-code
\* grant were both refused, with different messages.
C8_Witness ==
  \E a \in Acquisitions :
    /\ acq[a].pc = "rejected"
    /\ Len(acq[a].attemptErrors) = 2
    /\ acq[a].attemptErrors[1] # acq[a].attemptErrors[2]
    /\ Len(acq[a].sent) = 2

\* Handler h's call finds no refresh token known, no authorization code
\* configured and no unexpired token cached.
NothingToGrant ==
  /\ lastKnownRefreshToken = Null
  /\ env.GHL_PRIVATE_AUTH_CODE = Null
  /\ ~Unexpired

\* Acquisition a failed at once, having attempted no grant.
FailedFast(a, acqs) ==
  /\ acqs[a].pc = "rejected"
  /\ acqs[a].error = NoGrantMessage
  /\ acqs[a].attempted = <<>> /\ acqs[a].sent = <<>>

\* The call of handler h that awaited a fail-fast acquisition throws its
\* error, leaves cachedToken as it is and leaves inFlight without that
\* acquisition's promise.
FailsFastOnCompletion(h) ==
  (Completes(h) /\ FailedFast(handler[h].joined, acq)) =>
    /\ handler'[h].result = [kind |-> "error", value |-> NoGrantMessage]
    /\ cachedToken' = cachedToken
    /\ inFlight' # handler[h].joined
    /\ acq' = acq

\* C9, as claimed: with no refresh token known, no authorization code
\* configured and no valid cached token, get() fails with the 'No refresh
\* token or authorization code is configured' error, sends no request,
\* leaves cachedToken unchanged and leaves inFlight cleared.
C9_FailFastAlways ==
  [][\A h \in Handlers :
       /\ (Calls(h) /\ NothingToGrant) =>
            /\ handler'[h].pc = "awaiting"
            /\ FailedFast(handler'[h].joined, acq')
            /\ cachedToken' = cachedToken
       /\ FailsFastOnCompletion(h)]_vars

\* C9, amended: the same, for a get() that finds inFlight null.
C9_FailFast ==
  [][\A h \in Handlers :
       /\ (Calls(h) /\ NothingToGrant /\ inFlight = 0) =>
            /\ handler'[h].pc = "awaiting"
            /\ handler'[h].joined = Len(acq')
            /\ Len(acq') = Len(acq) + 1
            /\ FailedFast(handler'[h].joined, acq')
            /\ cachedToken' = cachedToken
       /\ FailsFastOnCompletion(h)]_vars

\* A call made with nothing to grant has thrown the fail-fast error, and
\* inFlight is null.
C9_Witness ==
  \E h \in Handlers :
    /\ handler[h].pc = "done" /\ handler[h].joined # 0
    /\ handler[h].result = [kind |-> "error", value |-> NoGrantMessage]
    /\ FailedFast(handler[h].joined, acq)
    /\ inFlight = 0

\* The first request of acquisition record rec is a refresh-token grant
\* that sends refresh token r.
SendsRefresh(rec, r) ==
  /\ Len(rec.sent) >= 1
  /\ rec.sent[1].grant_type = "refresh_token"
  /\ rec.sent[1].refresh_token = r

\* C10: a successful response that carries a non-empty refresh_token R'
\* leaves lastKnownRefreshToken = R', and one to a refresh grant that
\* carries none leaves the refresh token that was sent; invalidation does
\* not change lastKnownRefreshToken; and the acquisition that follows a
\* successful one sends the refresh token that one ended with.
C10_Rotation ==
  [][/\ Succeeded(lastResponse') =>
          \E a \in Acquisitions :
            /\ acq[a].pc = "fetch" /\ acq'[a].pc = "settled"
            /\ LET carried == lastResponse'.payload.refresh_token
               IN IF carried # Absent /\ carried.str # ""
                  THEN lastKnownRefreshToken' = carried.str
                  ELSE acq[a].params.grant_type = "refresh_token" =>
                         lastKnownRefreshToken' = acq[a].params.refresh_token
     /\ lastOp' = "invalidate" => lastKnownRefreshToken' = lastKnownRefreshToken
     /\ (/\ Len(acq') = Len(acq) + 1
         /\ Len(acq) >= 1
         /\ acq[Len(acq)].pc = "fulfilled"
         /\ acq[Len(acq)].token.refreshToken # Null)
          => SendsRefresh(acq'[Len(acq')], acq[Len(acq)].token.refreshToken)]_vars

\* ------------------------------------------- claims on the route handlers
\* Handler h runs, or has run, a list or detail operation.
Dispatching(h) == op[h].kind \in {"list", "detail"}

\* Handler h's await of getPrivateAccessToken() completes in this step.
TokenArrives(h) == op[h].pc = "token" /\ op'[h].pc # "token"

\* The resource API answers handler h's request in this step.
AnswerArrives(h) == op[h].pc = "fetch" /\ Len(op'[h].received) = Len(op[h].received) + 1

\* The parts of C11 that do not say when the second send happens: at most
\* two sends and one invalidation; a second send only after a first
\* response of 401 or 403, to the same URL with the same method, carrying
\* the token of the get() made after the invalidation; a 401 or 403 to the
\* second send is returned with that status, and nothing more is done.
DispatchRetryBounds ==
  /\ [](\A h \in Handlers :
          Dispatching(h) =>
            /\ Len(op[h].sends) <= 2 /\ op[h].invalidations <= 1
            /\ op[h].gets <= 2
            /\ Len(op[h].sends) = 2 =>
                 /\ op[h].received[1] \in {401, 403}
                 /\ op[h].invalidations = 1
                 /\ op[h].sends[2].url = op[h].sends[1].url
                 /\ op[h].sends[2].method = op[h].sends[1].method
            /\ (Len(op[h].received) = 2 /\ op[h].received[2] \in {401, 403}) =>
                 /\ op[h].pc = "responded"
                 /\ op[h].response.status = op[h].received[2]
                 /\ op[h].response.body.statusCode = op[h].received[2]
                 /\ op[h].invalidations = 1 /\ op[h].gets = 2
                 /\ handler[h].pc = "idle")
  /\ [][\A h \in Handlers :
          (Dispatching(h) /\ TokenArrives(h) /\ op[h].gets = 2
             /\ handler[h].result.kind = "token") =>
            /\ Len(op'[h].sends) = 2
            /\ op'[h].sends[2].authorization = "Bearer " \o handler[h].result.value
            /\ Len(acq') = Len(acq)]_vars

\* C11, as claimed: one list or detail request sends at most twice and
\* invalidates at most once; it sends a second time if and only if the
\* first response is 401 or 403, to the same URL with the token of the
\* get() made after the invalidation; a 401 or 403 to the second send is
\* returned as it is.
C11_RetryIffUnauthorized ==
  /\ DispatchRetryBounds
  /\ [](\A h \in Handlers :
          (Dispatching(h) /\ op[h].pc = "responded" /\ Len(op[h].received) >= 1) =>
            (Len(op[h].sends) = 2 <=> op[h].received[1] \in {401, 403}))

\* C11, amended: the same, where the second send happens if and only if
\* the first response is 401 or 403 and the get() made after the
\* invalidation returns a token.
C11_DispatchRetry ==
  /\ DispatchRetryBounds
  /\ [][\A h \in Handlers :
          Dispatching(h) =>
            /\ (AnswerArrives(h) /\ Len(op[h].received) = 0) =>
                 IF op'[h].received[1] \in {401, 403}
                 THEN /\ op'[h].pc = "token" /\ op'[h].gets = 2
                      /\ op'[h].invalidations = 1
                      /\ op'[h].sends = op[h].sends
                      /\ handler'[h].pc = "awaiting"
                 ELSE /\ op'[h].pc = "responded"
                      /\ op'[h].sends = op[h].sends
                      /\ op'[h].invalidations = 0
                      /\ UNCHANGED <<cachedToken, inFlight, acq>>
            /\ (TokenArrives(h) /\ op[h].gets = 2) =>
                 IF handler[h].result.kind = "token"
                 THEN op'[h].pc = "fetch" /\ Len(op'[h].sends) = 2
                 ELSE op'[h].pc = "responded" /\ op'[h].sends = op[h].sends]_vars

\* A list request was retried after a 401 and returned the 403 of the
\* second response.
C11_Witness ==
  \E h \in Handlers :
    /\ op[h].kind = "list" /\ op[h].pc = "responded"
    /\ op[h].received = <<401, 403>>
    /\ Len(op[h].sends) = 2
    /\ op[h].response.status = 403

\* C12: a list request that started with an empty cache, got 401 and then
\* 200 returns the result of the 200 response; the cache holds the token
\* the retry carried; and obtainFreshToken() ran exactly twice, once for
\* the first token and once after the invalidation.  The same holds for a
\* detail request whose 200 response has a body it recognises.
C12_RetrySucceeds ==
  \A h \in Handlers :
    (/\ Dispatching(h) /\ op[h].pc = "responded" /\ op[h].coldStart
     /\ op[h].received = <<401, 200>>) =>
      /\ op[h].kind = "list" =>
           /\ op[h].response.status = 200
           /\ op[h].response.body.locations \in {"data2", Null}
           /\ op[h].response.body.source.url = op[h].sends[2].url
      /\ (op[h].kind = "detail" /\ op[h].response.status = 200) =>
           op[h].response.body.location = "data2"
      /\ op[h].sends[2].authorization = "Bearer " \o cachedToken.accessToken
      /\ op[h].sends[2].authorization # op[h].sends[1].authorization
      /\ op[h].acquired = 2
      /\ op[h].gets = 2 /\ op[h].invalidations = 1

\* The first list request of the process got 401, then 200 with data, and
\* returned the data.
C12_Witness ==
  \E h \in Handlers :
    /\ op[h].kind = "list" /\ op[h].pc = "responded" /\ op[h].coldStart
    /\ op[h].received = <<401, 200>>
    /\ op[h].response.body.locations = "data2"
    /\ Len(acq) = 2

\* C13: wherever a handler awaits getPrivateAccessToken(), before its first
\* request or after an invalidation, a get() that throws ends the operation
\* at once with an error response that carries the message get() threw,
\* and that is not the response given to a network failure.
C13_AcquirerMessage ==
  [][\A h \in Handlers :
       (TokenArrives(h) /\ handler[h].result.kind = "error") =>
         /\ op'[h].pc = "responded"
         /\ op'[h].sends = op[h].sends
         /\ op'[h].response.status >= 400
         /\ op'[h].response.body.error = handler[h].result.value
         /\ op'[h].response.status # 502]_vars

\* The status of the last answer handler h's operation received: 0 when
\* the fetch threw.
LastReceived(h) == op[h].received[Len(op[h].received)]

\* The response given to a transport failure: 502 without statusCode.
TransportShaped(response) ==
  response.status = 502 /\ "statusCode" \notin DOMAIN response.body

\* C14: in each operation a transport failure yields status 502 with no
\* statusCode field; an operation that responds to an upstream error
\* status (for custom values: one other than 404) yields that status with
\* statusCode equal to it; and no operation whose last answer was an
\* upstream error status yields the response of a transport failure.
C14_Distinguishable ==
  /\ [](\A h \in Handlers :
          (op[h].pc = "responded" /\ Len(op[h].received) >= 1) =>
            /\ LastReceived(h) = 0 => TransportShaped(op[h].response)
            /\ (LastReceived(h) # 0 /\ LastReceived(h) \notin 200..299) =>
                 ~TransportShaped(op[h].response))
  /\ [][\A h \in Handlers :
          (/\ AnswerArrives(h) /\ op'[h].pc = "responded"
           /\ op'[h].received[Len(op'[h].received)] \notin 200..299
           /\ op'[h].received[Len(op'[h].received)] # 0
           /\ ~(op[h].kind = "custom"
                  /\ op'[h].received[Len(op'[h].received)] = 404)) =>
            /\ op'[h].response.status = op'[h].received[Len(op'[h].received)]
            /\ op'[h].response.body.statusCode = op'[h].response.status]_vars

\* Handler h runs, or has run, a custom-values operation.
Probing(h) == op[h].kind = "custom"

\* The base and the pattern of the i-th request of handler h's
\* custom-values operation, read from its URL.
BaseOf(h, i) ==
  CHOOSE b \in 1..Len(op[h].bases) :
    \E k \in 1..Len(PATH_PATTERNS) :
      op[h].sends[i].url = op[h].bases[b] \o PATH_PATTERNS[k]

PatternOf(h, i) ==
  CHOOSE k \in 1..Len(PATH_PATTERNS) :
    op[h].sends[i].url = op[h].bases[BaseOf(h, i)] \o PATH_PATTERNS[k]

\* C15: the probe requests one pattern at a time; every pass starts at the
\* first pattern; a request for pattern k+1 follows, on the same host, a
\* request for pattern k that was answered 404; and after a 2xx answer no
\* further request is sent and the operation returns that success.
C15_ProbeOrder ==
  \A h \in Handlers :
    Probing(h) =>
      /\ Len(op[h].sends) - Len(op[h].received) = IF op[h].pc = "fetch" THEN 1 ELSE 0
      /\ \A i \in 1..Len(op[h].sends) :
           /\ \E b \in 1..Len(op[h].bases), k \in 1..Len(PATH_PATTERNS) :
                op[h].sends[i].url = op[h].bases[b] \o PATH_PATTERNS[k]
           /\ i = 1 => PatternOf(h, i) = 1
           /\ i > 1 =>
                \/ PatternOf(h, i) = 1
                \/ /\ PatternOf(h, i) = PatternOf(h, i - 1) + 1
                   /\ BaseOf(h, i) = BaseOf(h, i - 1)
                   /\ op[h].received[i - 1] = 404
           /\ (i <= Len(op[h].received) /\ op[h].received[i] \in 200..299) =>
                /\ i = Len(op[h].sends)
                /\ op[h].pc = "responded"
                /\ op[h].response.status = 200
                /\ op[h].response.body.source.url = op[h].sends[i].url

\* A probe found the custom values at the third pattern of the first host.
C15_Witness ==
  \E h \in Handlers :
    /\ Probing(h) /\ op[h].pc = "responded"
    /\ op[h].received = <<404, 404, 200>>
    /\ PatternOf(h, 3) = 3
    /\ op[h].response.body.resolvedBaseUrl = op[h].bases[1]

\* A status that is no success, no 404 and no authorization status; 0 is
\* the network failure.
Systemic(status) ==
  status \notin 200..299 /\ status # 404 /\ status # 401 /\ status # 403

\* C16: after an attempt that ended in a network failure or in a status
\* that is neither 2xx, 404, 401 nor 403, the custom-values operation
\* sends no further request, to this host or the alternate one, and
\* responds with that failure: 502 for the network failure, the upstream
\* status otherwise.
C16_SystemicStop ==
  \A h \in Handlers :
    Probing(h) =>
      \A i \in 1..Len(op[h].received) :
        Systemic(op[h].received[i]) =>
          /\ i = Len(op[h].sends)
          /\ op[h].pc = "responded"
          /\ op[h].response.status =
               IF op[h].received[i] = 0 THEN 502 ELSE op[h].received[i]
          /\ op[h].received[i] # 0 =>
               op[h].response.body.statusCode = op[h].received[i]
          /\ op[h].response.body.attemptedUrls[
               Len(op[h].response.body.attemptedUrls)] = op[h].sends[i].url

\* A probe of a canonical host stopped at a 500 to its second pattern and
\* never contacted the alternate host.
C16_Witness ==
  \E h \in Handlers :
    /\ Probing(h) /\ op[h].pc = "responded"
    /\ Len(op[h].bases) = 2
    /\ op[h].received = <<404, 500>>
    /\ op[h].response.status = 500

\* The i-th request of handler h's operation goes to base b with one of
\* the five patterns.
SentTo(h, i, b) ==
  \E k \in 1..Len(PATH_PATTERNS) : op[h].sends[i].url = b \o PATH_PATTERNS[k]

\* C17: every request of a custom-values operation goes to the sanitised
\* primary base or, when that is one of the two canonical bases, to the
\* other canonical base; the first request to the other base follows five
\* requests to the primary base, for the five patterns in order, that were
\* all answered 404; after it no request goes to the primary base.
C17_AlternateHost ==
  \A h \in Handlers :
    Probing(h) =>
      LET primary == op[h].bases[1]
          rest == "https://rest.gohighlevel.com/v1"
          lead == "https://services.leadconnectorhq.com/v1"
          other == IF primary = rest THEN lead ELSE rest
      IN \A i \in 1..Len(op[h].sends) :
           /\ \/ SentTo(h, i, primary)
              \/ primary \in {rest, lead} /\ SentTo(h, i, other)
           /\ (primary \in {rest, lead} /\ SentTo(h, i, other)) =>
                /\ i >= 6
                /\ \/ SentTo(h, i - 1, other)
                   \/ \A k \in 1..5 :
                        /\ op[h].sends[i - 6 + k].url = primary \o PATH_PATTERNS[k]
                        /\ op[h].received[i - 6 + k] = 404
                /\ \A j \in (i + 1)..Len(op[h].sends) : SentTo(h, j, other)

\* A request whose base URL was sent with surrounding spaces and trailing
\* slashes probed the LeadConnector host, got 404 five times, and went on
\* to the REST host.
C17_Witness ==
  \E h \in Handlers :
    /\ Probing(h)
    /\ op[h].bases[1] = "https://services.leadconnectorhq.com/v1"
    /\ Len(op[h].sends) = 6
    /\ op[h].sends[6].url = "https://rest.gohighlevel.com/v1"
                              \o "/locations/loc1/customValues"

\* Handler h's custom-values operation has ended after 404 for the five
\* patterns on the first host, 404 for the first pattern on the second host
\* and 200 for the second pattern there.
FoundOnSecondHost(h) ==
  /\ Probing(h)
  /\ op[h].pc = "responded"
  /\ Len(op[h].bases) = 2
  /\ op[h].received = <<404, 404, 404, 404, 404, 404, 200>>

\* The URLs requested by handler h's operation, in the order of the
\* requests.
RequestedUrls(h) == [i \in 1..Len(op[h].sends) |-> op[h].sends[i].url]

\* The response of handler h is the success found at the second pattern of
\* the second host.
ReturnsSecondHostSuccess(h) ==
  LET found == op[h].bases[2] \o PATH_PATTERNS[2]
  IN /\ op[h].response.status = 200
     /\ "error" \notin DOMAIN op[h].response.body
     /\ op[h].response.body.source.url = found
     /\ op[h].response.body.resolvedBaseUrl = op[h].bases[2]
     /\ op[h].response.body.customValues = "data7"
     /\ op[h].sends[Len(op[h].sends)].url = found

\* C18 as stated: after 404 for the five patterns on host A and 200 at host
\* B's second pattern, the handler returns that success and attemptedUrls
\* holds six URLs, those requested, in order.
C18_SixUrls ==
  \A h \in Handlers :
    FoundOnSecondHost(h) =>
      /\ ReturnsSecondHostSuccess(h)
      /\ Len(op[h].response.body.attemptedUrls) = 6
      /\ op[h].response.body.attemptedUrls = RequestedUrls(h)

\* C18, amended: after 404 for the five patterns on host A and 200 at host
\* B's second pattern, the handler returns that success and attemptedUrls
\* holds the seven URLs requested, in order: the five patterns on host A,
\* then the first and the second pattern on host B.
C18_SecondHostSuccess ==
  \A h \in Handlers :
    FoundOnSecondHost(h) =>
      /\ ReturnsSecondHostSuccess(h)
      /\ op[h].response.body.attemptedUrls
           = [k \in 1..5 |-> op[h].bases[1] \o PATH_PATTERNS[k]]
               \o <<op[h].bases[2] \o PATH_PATTERNS[1],
                    op[h].bases[2] \o PATH_PATTERNS[2]>>
      /\ op[h].response.body.attemptedUrls = RequestedUrls(h)

C18_Witness ==
  \E h \in Handlers :
    /\ FoundOnSecondHost(h)
    /\ op[h].bases = <<"https://rest.gohighlevel.com/v1",
                       "https://services.leadconnectorhq.com/v1">>
    /\ Len(op[h].response.body.attemptedUrls) = 7

\* The position of the first request of handler h's operation for url.
FirstRequestOf(h, url) ==
  CHOOSE i \in 1..Len(op[h].sends) :
    /\ op[h].sends[i].url = url
    /\ \A j \in 1..(i - 1) : op[h].sends[j].url # url

\* Handler h's custom-values operation has ended, and on every candidate
\* host its last five requests were for the five patterns, all answered 404.
NothingFound(h) ==
  /\ Probing(h)
  /\ op[h].pc = "responded"
  /\ \A b \in 1..Len(op[h].bases) :
       \E i \in 0..(Len(op[h].sends) - 5) :
         /\ \A k \in 1..5 :
              /\ op[h].sends[i + k].url = op[h].bases[b] \o PATH_PATTERNS[k]
              /\ op[h].received[i + k] = 404
         /\ \A j \in (i + 6)..Len(op[h].sends) :
              ~SentTo(h, j, op[h].bases[b])

\* C19: when every pattern on every candidate host ended with 404, the
\* response has status 200 and no error, customValues = [], count = 0 and
\* resolvedBaseUrl = null, and attemptedUrls holds exactly the requested
\* URLs, each once, ordered by their first request; this includes the
\* operations in which an authorization retry requested URLs twice.
C19_EmptyResult ==
  \A h \in Handlers :
    NothingFound(h) =>
      LET body == op[h].response.body
          urls == body.attemptedUrls
      IN /\ op[h].response.status = 200
         /\ "error" \notin DOMAIN body
         /\ body.customValues = <<>>
         /\ body.count = 0
         /\ body.resolvedBaseUrl = Null
         /\ {urls[i] : i \in 1..Len(urls)}
              = {op[h].sends[i].url : i \in 1..Len(op[h].sends)}
         /\ \A i, j \in 1..Len(urls) :
              i < j => /\ urls[i] # urls[j]
                       /\ FirstRequestOf(h, urls[i]) < FirstRequestOf(h, urls[j])

\* Two hosts were probed, the first pass on the first host met a 401 at its
\* second pattern and was repeated, and nothing was found: twelve requests
\* for ten URLs.
C19_Witness ==
  \E h \in Handlers :
    /\ NothingFound(h)
    /\ Len(op[h].bases) = 2
    /\ op[h].received
         = <<404, 401, 404, 404, 404, 404, 404, 404, 404, 404, 404, 404>>
    /\ Len(op[h].response.body.attemptedUrls) = 10

\* The URLs a response body reports: attemptedUrls where the body has it,
\* else source.url where the body has it.
ReportedUrls(body) ==
  IF "attemptedUrls" \in DOMAIN body
  THEN {body.attemptedUrls[i] : i \in 1..Len(body.attemptedUrls)}
  ELSE IF "source" \in DOMAIN body THEN {body.source.url}
  ELSE {}

\* Handler h's operation has ended with an error after the last request
\* failed in transport (status 0) or was answered with an error status
\* other than 401 and 403.
FailedUpstream(h) ==
  /\ op[h].pc = "responded"
  /\ Len(op[h].sends) >= 1
  /\ "error" \in DOMAIN op[h].response.body
  /\ \/ LastReceived(h) = 0
     \/ LastReceived(h) >= 400 /\ LastReceived(h) \notin {401, 403}

\* Handler h's operation has ended without an error after a 2xx answer.
EndedWell(h) ==
  /\ op[h].pc = "responded"
  /\ Len(op[h].sends) >= 1
  /\ "error" \notin DOMAIN op[h].response.body
  /\ LastReceived(h) \in 200..299

\* C20: the result of a list, detail or custom-values operation that ended
\* with a network failure or an upstream error reports the URLs requested
\* before the failure, and a successful result reports the URL(s)
\* requested.
C20_DiagnosticTrail ==
  \A h \in Handlers :
    (FailedUpstream(h) \/ EndedWell(h)) =>
      ReportedUrls(op[h].response.body)
        = {op[h].sends[i].url : i \in 1..Len(op[h].sends)}

\* The part of C20 on successful results.
SuccessReportsUrls ==
  \A h \in Handlers :
    EndedWell(h) =>
      ReportedUrls(op[h].response.body)
        = {op[h].sends[i].url : i \in 1..Len(op[h].sends)}

\* -------------------------------------- claims on requests and failures
\* A form body carries the client's identity and exactly one grant: a
\* refresh token, or an authorization code with its redirect URI.
WellFormedTokenRequest(body) ==
  /\ {"client_id", "client_secret", "user_type", "grant_type"} \subseteq DOMAIN body
  /\ \/ /\ body.grant_type = "refresh_token"
        /\ "refresh_token" \in DOMAIN body
        /\ "code" \notin DOMAIN body
     \/ /\ body.grant_type = "authorization_code"
        /\ {"code", "redirect_uri"} \subseteq DOMAIN body
        /\ "refresh_token" \notin DOMAIN body

\* C21: every request the acquirer sent to the token endpoint carries
\* client_id, client_secret, user_type and exactly one grant, which is
\* grant_type=refresh_token with refresh_token or
\* grant_type=authorization_code with code and redirect_uri.
C21_TokenRequestShape ==
  \A a \in 1..Len(acq) :
    \A i \in 1..Len(acq[a].sent) : WellFormedTokenRequest(acq[a].sent[i])

\* The token endpoint's answer handled by the step is a 2xx whose body is
\* not JSON.
MalformedTokenBody(response) ==
  response.kind = "http" /\ response.status \in 200..299 /\ ~response.parses

\* A step that handles a 2xx token response with a malformed body fails the
\* grant attempt with the error of a response without access_token, which
\* is also the outcome for the same response with an empty JSON body, and
\* leaves the cache, the refresh token and inFlight as they were.
MalformedTokenBodyFails ==
  MalformedTokenBody(lastResponse') =>
    /\ cachedToken' = cachedToken
    /\ lastKnownRefreshToken' = lastKnownRefreshToken
    /\ inFlight' = inFlight
    /\ \E a \in 1..Len(acq) :
         /\ acq[a].pc = "fetch"
         /\ acq'[a].pc = "settled"
         /\ acq'[a].ptr = [ok |-> FALSE, message |-> MissingAccessTokenMessage,
                           token |-> NoToken]
         /\ acq'[a].ptr
              = TokenRequestOutcome(
                  [kind |-> "http", status |-> lastResponse'.status,
                   parses |-> TRUE, payload |-> EmptyPayload],
                  acq[a].params)

\* A list or detail operation that ended on a non-2xx answer with a
\* malformed body, other than a first 401/403, responds with the upstream
\* status, that status as statusCode, and the default message.
MalformedUpstreamReported ==
  \A h \in Handlers :
    (/\ Dispatching(h)
     /\ op[h].pc = "responded"
     /\ Len(op[h].received) \in op[h].unparsed
     /\ LastReceived(h) \notin 200..299) =>
      /\ op[h].response.status = LastReceived(h)
      /\ op[h].response.body.statusCode = LastReceived(h)
      /\ op[h].response.body.error
           = (IF op[h].kind = "list"
              THEN "Failed to retrieve sub-accounts from Go High Level."
              ELSE "Failed to retrieve sub-account details from Go High Level.")

\* C22: a malformed body is an absent payload.  A 2xx token response with
\* a malformed body fails the grant attempt like one without access_token
\* and leaves the cache unchanged; a non-2xx list or detail response with
\* a malformed body is reported with its status and the default message.
C22_MalformedBody ==
  /\ []MalformedUpstreamReported
  /\ [][MalformedTokenBodyFails]_vars

\* A detail request was answered 500 with a body that is not JSON, after
\* a first request that was answered 401.
C22_Witness ==
  \E h \in Handlers :
    /\ op[h].kind = "detail"
    /\ op[h].pc = "responded"
    /\ op[h].received = <<401, 500>>
    /\ op[h].unparsed = {2}
    /\ op[h].response.status = 500

\* A 2xx token response with a malformed body has just been handled.
MalformedTokenBodySeen == MalformedTokenBody(lastResponse)

\* The position of the first 401 or 403 among the answers to handler h's
\* requests, or 0.
FirstRejection(h) ==
  IF \E i \in 1..Len(op[h].received) : op[h].received[i] \in {401, 403}
  THEN CHOOSE i \in 1..Len(op[h].received) :
         /\ op[h].received[i] \in {401, 403}
         /\ \A j \in 1..(i - 1) : op[h].received[j] \notin {401, 403}
  ELSE 0

\* C24: one custom-values operation invalidates the cache at most once and
\* calls getPrivateAccessToken() at most twice, on whatever hosts; the
\* request after the first 401/403 is for the first pattern on the same
\* host and carries the newly acquired token, as do all later requests; a
\* later 401/403, on that host or the alternate one, is the last answer
\* of the operation, which ends with that status without another
\* invalidation or acquisition.
C24_SingleAuthRetry ==
  \A h \in Handlers :
    Probing(h) =>
      LET first == FirstRejection(h)
      IN /\ op[h].invalidations <= 1
         /\ op[h].gets <= 2
         /\ op[h].invalidations = (IF first = 0 THEN 0 ELSE 1)
         /\ op[h].gets = 1 + op[h].invalidations
         /\ (first # 0 /\ Len(op[h].sends) > first) =>
              /\ op[h].sends[first + 1].url
                   = op[h].bases[BaseOf(h, first)] \o PATH_PATTERNS[1]
              /\ op[h].sends[first + 1].authorization
                   # op[h].sends[first].authorization
              /\ \A j \in 1..first :
                   op[h].sends[j].authorization = op[h].sends[1].authorization
              /\ \A j \in (first + 1)..Len(op[h].sends) :
                   op[h].sends[j].authorization = "Bearer " \o op[h].token
         /\ \A j \in 1..Len(op[h].received) :
              (first # 0 /\ j > first /\ op[h].received[j] \in {401, 403}) =>
                /\ j = Len(op[h].sends)
                /\ op[h].pc = "responded"
                /\ op[h].response.status = op[h].received[j]
                /\ op[h].response.body.statusCode = op[h].received[j]

\* A probe met a 401 at the second pattern of the first host, repeated the
\* pass with a new token, went on to the alternate host and ended there
\* with the 401 to its first pattern.
C24_Witness ==
  \E h \in Handlers :
    /\ Probing(h)
    /\ op[h].pc = "responded"
    /\ op[h].received = <<404, 401, 404, 404, 404, 404, 404, 401>>
    /\ BaseOf(h, 8) = 2
    /\ op[h].invalidations = 1
    /\ op[h].response.status = 401

\* Acquisition a has failed and every handler that awaited it has been
\* given its error.
FailedAndNotified(a) ==
  /\ acq[a].pc = "rejected"
  /\ acq[a].finallyRan
  /\ \A h \in Handlers :
       handler[h].joined = a => handler[h].pc # "awaiting"

\* C25, amended: an acquisition that has failed and whose waiters have all
\* been notified is not the one inFlight holds (inFlight is null or holds a
\* later acquisition); a get() call that has to wait starts an acquisition
\* or joins one that is not such a failed one; and, when every
\* token-endpoint request settles, every get() call that waits returns a
\* token or throws.
C25_NotRetained ==
  /\ [](\A a \in 1..Len(acq) :
          FailedAndNotified(a) => (inFlight = 0 \/ inFlight > a))
  /\ [][\A h \in Handlers :
          (handler[h].pc = "idle" /\ handler'[h].pc = "awaiting") =>
            \/ handler'[h].joined = Len(acq) + 1 /\ inFlight = 0
            \/ /\ handler'[h].joined = inFlight
               /\ ~FailedAndNotified(inFlight)]_vars
  /\ \A h \in Handlers :
       (handler[h].pc = "awaiting") ~> (handler[h].pc = "done")

\* An acquisition failed, its waiter got the error, and the next get()
\* call has started another acquisition.
C25_Witness ==
  \E h \in Handlers :
    /\ handler[h].pc = "awaiting"
    /\ handler[h].joined = 2
    /\ inFlight = 2
    /\ FailedAndNotified(1)
    /\ acq[2].pc = "fetch"

\* C25, first part as stated: once an acquisition has failed and all its
\* waiters have been notified, inFlight is null.  The step that notifies
\* the last waiter of a failed acquisition, or fails an acquisition that
\* has no waiter left, leaves inFlight null.
C25_InFlightNull ==
  [][\A a \in 1..Len(acq) :
       (a <= Len(acq') /\ ~FailedAndNotified(a) /\ FailedAndNotified(a)')
         => inFlight' = 0]_vars

\* The step handled a 2xx answer of the token endpoint whose body is JSON
\* with a non-empty access_token.
GrantSucceeds ==
  /\ lastResponse'.kind = "http"
  /\ lastResponse'.status \in 200..299
  /\ lastResponse'.parses
  /\ lastResponse'.payload.access_token # Absent
  /\ lastResponse'.payload.access_token.str # ""

\* C26: cachedToken changes only in a step that handles a successful grant,
\* which stores the access token of that response, or in an invalidation,
\* which empties it; every successful grant stores its token; so a
\* non-null cachedToken holds a non-empty access token, that of the most
\* recent successful grant, and a step in which a grant attempt or an
\* acquisition fails leaves cachedToken as it was.
C26_CacheWrites ==
  /\ [](cachedToken # NoToken => cachedToken.accessToken \notin {Null, ""})
  /\ [][/\ GrantSucceeds =>
             cachedToken'.accessToken = lastResponse'.payload.access_token.str
        /\ cachedToken' # cachedToken =>
             \/ GrantSucceeds
             \/ cachedToken' = NoToken /\ lastOp' = "invalidate"
        /\ (\E a \in 1..Len(acq') :
              \/ a > Len(acq) /\ acq'[a].pc \in {"settled", "rejected"}
              \/ /\ a <= Len(acq)
                 /\ acq[a].pc \notin {"settled", "rejected", "retired"}
                 /\ \/ acq'[a].pc = "rejected"
                    \/ acq'[a].pc = "settled" /\ ~acq'[a].ptr.ok) =>
             cachedToken' = cachedToken]_vars

\* A grant attempt has just been refused with 400 while the token of an
\* earlier grant, now expired, is still in the cache.
C26_Witness ==
  /\ cachedToken # NoToken
  /\ cachedToken.expiresAt <= now
  /\ lastResponse.kind = "http"
  /\ lastResponse.status = 400
  /\ \E a \in 1..Len(acq) : acq[a].pc = "settled" /\ ~acq[a].ptr.ok

\* The process was started with a refresh token and without an
\* authorization code, and a refresh grant has failed since: the refresh
\* token it remembered is gone.
RefreshLost ==
  /\ env.GHL_PRIVATE_AUTH_CODE = Null
  /\ env.GHL_PRIVATE_REFRESH_TOKEN # Null
  /\ lastKnownRefreshToken = Null

\* obtainFreshToken() resumes in acquisition a after its refresh grant
\* failed.
RefreshFailureHandled(a) ==
  /\ a <= Len(acq)
  /\ acq[a].pc = "settled"
  /\ ~acq[a].ptr.ok
  /\ acq[a].params.grant_type = "refresh_token"
  /\ acq'[a].pc # "settled"

\* An acquisition starts in this step, and fails before it sends anything.
StartsAndFailsUnsent ==
  Len(acq') > Len(acq) =>
    /\ acq'[Len(acq')].pc = "rejected"
    /\ acq'[Len(acq')].sent = <<>>
    /\ acq'[Len(acq')].error = NoGrantMessage

\* C27 as stated: whatever the failure of a refresh grant, handling it sets
\* lastKnownRefreshToken to null, and without an authorization code it
\* stays null from then on, so that every acquisition started later fails
\* before it sends a request.
C27_NoRecovery ==
  [][/\ (\E a \in 1..Len(acq') : RefreshFailureHandled(a)) =>
         lastKnownRefreshToken' = Null
     /\ RefreshLost => RefreshLost' /\ StartsAndFailsUnsent]_vars

\* Handler h handles a 401/403 answer to its first request in this step:
\* it invalidates the cache and calls getPrivateAccessToken() again.
Reacquires(h) ==
  /\ op[h].pc = "fetch"
  /\ op'[h].invalidations = op[h].invalidations + 1

\* C28: a request that handles the rejection of its token empties the cache
\* whatever token it holds, also a newer token than the rejected one, and
\* then starts an acquisition unless one is in flight, which it joins; a
\* request invalidates once, so it starts at most one acquisition more.
C28_UntiedInvalidation ==
  /\ [](\A h \in Handlers :
          /\ op[h].invalidations <= 1
          /\ op[h].kind # "none" => op[h].gets = 1 + op[h].invalidations
          /\ op[h].acquired <= op[h].gets)
  /\ [][\A h \in Handlers :
          Reacquires(h) =>
            /\ op[h].received = <<>>
            /\ cachedToken' = NoToken
            /\ handler'[h].pc = "awaiting"
            /\ IF inFlight = 0
               THEN /\ Len(acq') = Len(acq) + 1
                    /\ inFlight' = Len(acq')
                    /\ handler'[h].joined = Len(acq')
               ELSE /\ acq' = acq
                    /\ inFlight' = inFlight
                    /\ handler'[h].joined = inFlight]_vars

\* Both requests sent the same token and both were rejected; the first
\* re-acquired a second token and sent it; the second, handling its
\* rejection after that, emptied the cache and started a third acquisition.
C28_Witness ==
  /\ Len(op[1].sends) = 2
  /\ Len(op[2].sends) = 1
  /\ op[1].sends[1].authorization = op[2].sends[1].authorization
  /\ op[1].sends[2].authorization = Bearer(MintedToken(2, "refresh_token"))
  /\ op[1].received[1] = 401
  /\ op[2].received = <<401>>
  /\ op[2].pc = "token"
  /\ cachedToken = NoToken
  /\ Len(acq) = 3
  /\ inFlight = 3
  /\ handler[2].joined = 3
  /\ acq[3].pc = "fetch"
  /\ op[1].acquired + op[2].acquired = 3

\* C29: a custom-values operation that ended with a success reports in
\* attemptedUrls the URL of every request it sent, in the order sent and
\* with the repeats of an authorization retry; the last of them is
\* source.url; the answer to that request is the only 2xx answer; and
\* resolvedBaseUrl is the base that request was sent to.
C29_SuccessTrail ==
  \A h \in Handlers :
    Probing(h) /\ EndedWell(h) =>
      LET body == op[h].response.body
          n == Len(op[h].sends)
      IN /\ op[h].response.status = 200
         /\ body.attemptedUrls = RequestedUrls(h)
         /\ body.source.url = body.attemptedUrls[n]
         /\ Len(op[h].received) = n
         /\ \A i \in 1..n : (op[h].received[i] \in 200..299) <=> (i = n)
         /\ body.resolvedBaseUrl = body.attemptedBaseUrls[n]
         /\ body.resolvedBaseUrl = op[h].bases[op[h].base]
         /\ \E p \in 1..Len(PATH_PATTERNS) :
              op[h].sends[n].url = body.resolvedBaseUrl \o PATH_PATTERNS[p]

\* A success after an authorization retry: the first URL was requested
\* twice, and attemptedUrls has it twice.
C29_Witness ==
  /\ Probing(1)
  /\ EndedWell(1)
  /\ op[1].retryUsed
  /\ Len(op[1].sends) >= 3
  /\ \E i \in 2..Len(op[1].sends) :
       /\ op[1].sends[i].url = op[1].sends[1].url
       /\ op[1].response.body.attemptedUrls[i]
            = op[1].response.body.attemptedUrls[1]

\* The access tokens the acquirer of the process can have obtained.
MintedTokens ==
  {MintedToken(a, grant) :
     a \in 1..MaxAcq, grant \in {"refresh_token", "authorization_code"}}

\* C30: every request of a list, detail or custom-values operation goes to
\* a URL on a base of the operation, the first of which is whatever
\* sanitiseBaseUrl made of the caller's baseUrl, canonical host or not, and
\* carries in its Authorization header a token of the process-wide
\* acquirer, the last request the token the operation holds.
C30_TokenFollowsBase ==
  \A h \in Handlers :
    op[h].kind # "none" =>
      /\ op[h].bases[1] \in {sanitiseBaseUrl(c) : c \in BaseUrlCandidates}
      /\ \A i \in 1..Len(op[h].sends) :
           /\ \E b \in 1..Len(op[h].bases) :
                op[h].sends[i].url \in UrlsOn(op[h].bases[b])
           /\ \E token \in MintedTokens :
                op[h].sends[i].authorization = Bearer(token)
      /\ Len(op[h].sends) >= 1 =>
           op[h].sends[Len(op[h].sends)].authorization = Bearer(op[h].token)

\* Two requests of the same kind that differ in baseUrl only: one sent the
\* token to a host that is not canonical, the other the same token to the
\* default host.
C30_Witness ==
  /\ op[1].kind # "none"
  /\ op[1].kind = op[2].kind
  /\ op[1].bases[1] = "http://proxy.example/v1"
  /\ op[2].bases[1] = DEFAULT_GHL_BASE_URL
  /\ Len(op[1].sends) = 1
  /\ Len(op[2].sends) = 1
  /\ op[1].sends[1].url \in UrlsOn("http://proxy.example/v1")
  /\ op[2].sends[1].url \in UrlsOn(DEFAULT_GHL_BASE_URL)
  /\ op[1].sends[1].authorization = op[2].sends[1].authorization
  /\ op[1].sends[1].authorization = Bearer(cachedToken.accessToken)
  /\ cachedToken # NoToken

\* ------------------------------------------------ claims on the script
\* Every request the script sends carries the client's identity and
\* exactly one grant, an authorization code with its redirect URI.
ScriptRequestWellFormed ==
  script.pc = "fetch" => WellFormedTokenRequest(script.request)

\* The KEY=value entries of .env.local as a reader of the file takes them:
\* lines that are not empty and not comments and have a key before their
\* first "="; key and value without surrounding white space; for a key
\* that occurs twice, the last value.
IsEntry(line) ==
  /\ TrimLine(line) # <<>>
  /\ Head(TrimLine(line)) # "#"
  /\ \E i \in 2..Len(TrimLine(line)) : TrimLine(line)[i] = "="
  /\ TrimLine(line)[1] # "="

EntryKey(line) == TrimLine(KeyOf(TrimLine(line)))
EntryValue(line) == TrimLine(RestOf(TrimLine(line)))

KeysIn(file) ==
  {EntryKey(file.lines[i]) : i \in {j \in 1..Len(file.lines) : IsEntry(file.lines[j])}}

ValueIn(file, key) ==
  LET last == CHOOSE i \in 1..Len(file.lines) :
                /\ IsEntry(file.lines[i]) /\ EntryKey(file.lines[i]) = key
                /\ \A j \in (i + 1)..Len(file.lines) :
                     ~(IsEntry(file.lines[j]) /\ EntryKey(file.lines[j]) = key)
  IN EntryValue(file.lines[last])

SavePassed == \E i \in 1..Len(script.argv) : script.argv[i].raw = "--save"

\* C23: .env.local differs from what it was only after a run that was
\* given --save, ended with code 0 and got a refresh token; then the entry
\* GHL_PRIVATE_REFRESH_TOKEN holds the new refresh token and every other
\* entry the file had keeps its key and value; a run that parsed --save
\* and got a refresh token has stored it; a run that ended without a token
\* (exchange failed, or credentials, grant input or redirect URI missing)
\* left the file as it was and ended with code 1.
C23_Persistence ==
  LET key == <<"GHL_PRIVATE_REFRESH_TOKEN">>
      granted == script.token.ok /\ script.token.refreshToken \notin {Null, ""}
  IN script.pc # "none" =>
       /\ script.file # script.original =>
            /\ SavePassed /\ script.pc = "exited" /\ script.exitCode = 0
            /\ granted
            /\ key \in KeysIn(script.file)
            /\ ValueIn(script.file, key) = <<script.token.refreshToken>>
            /\ \A k \in KeysIn(script.original) \ {key} :
                 /\ k \in KeysIn(script.file)
                 /\ ValueIn(script.file, k) = ValueIn(script.original, k)
       /\ (script.pc = "exited" /\ script.options.save /\ granted) =>
            /\ key \in KeysIn(script.file)
            /\ ValueIn(script.file, key) = <<script.token.refreshToken>>
       /\ (script.pc = "exited" /\ ~script.token.ok) =>
            script.file = script.original /\ script.exitCode = 1
       /\ script.exitCode = 1 => script.file = script.original

\* A run with --save exchanged its grant for a token with refresh token R1
\* and rewrote a file that had a comment, the entries A and B and an old
\* refresh token.
C23_Witness ==
  /\ script.pc = "exited"
  /\ SavePassed
  /\ script.exitCode = 0
  /\ KeysIn(script.original) = {<<"A">>, <<"B">>, <<"GHL_PRIVATE_REFRESH_TOKEN">>}
  /\ ValueIn(script.original, <<"GHL_PRIVATE_REFRESH_TOKEN">>) = <<"old">>
  /\ ValueIn(script.file, <<"GHL_PRIVATE_REFRESH_TOKEN">>) = <<"R1">>
  /\ ValueIn(script.file, <<"B">>) = <<"2">>

\* A run with --save sent its request, and the exchange failed.
ScriptFailures ==
  /\ script.pc = "exited"
  /\ script.exitCode = 1
  /\ script.request # [none |-> TRUE]
  /\ script.options.save

====
